---------------------------- MODULE Spec2Model ----------------------------
(***************************************************************************)
(* Model of the Edovia chat demo server (express app, POST /chat).         *)
(*                                                                         *)
(* Three revisions of the /chat handler are modelled:                      *)
(*   "keyword"   deterministic wizard with the guarded parseBudget and the *)
(*               keyword parseGoal      (src/unnamed/part_002, 80-551)     *)
(*   "verbatim"  deterministic wizard with the unguarded parseBudget and   *)
(*               the verbatim-goal fallback   (src/server.js, 272-665)     *)
(*   "delegated" wizard driven by runWizardControllerLLM                   *)
(*                                           (src/unnamed/part_003)        *)
(*                                                                         *)
(* Texts are TLA+ strings; the parsers work on their characters as the     *)
(* JavaScript does (toLowerCase, includes, the two regular expressions).   *)
(* JavaScript values are tagged records so that null, undefined, numbers   *)
(* and strings can live in one slot.                                       *)
(***************************************************************************)
EXTENDS Integers, Sequences, FiniteSets, TLC

VARIABLES
    rev,        \* which revision of the server is running
    sessions,   \* the Map sessions: session id -> [count, wizard]
    pending,    \* handlers suspended on an awaited OpenAI call
    last,       \* the response most recently sent (observation of res.json)
    partners,   \* partners/<code>.json files: code -> JSON content
    lost,       \* history: the slots whose value, merged by an overlapping
                \* turn, the last finished delegated turn wrote back over
    engine      \* the last direct call of the comparison engine and its result

vars == <<rev, sessions, pending, last, partners, lost, engine>>

(***************************************************************************)
(* JavaScript values                                                       *)
(***************************************************************************)
UNDEF == [t |-> "undefined"]
NULL == [t |-> "null"]
Num(n) == [t |-> "number", n |-> n]
Str(s) == [t |-> "string", s |-> s]
Bool(b) == [t |-> "boolean", b |-> b]

\* ToBoolean: what `if (v)`, `!v` and `a || b` look at
Truthy(v) ==
    CASE v.t = "number" -> v.n # 0
      [] v.t = "string" -> v.s # ""
      [] v.t = "boolean" -> v.b
      [] v.t \in {"object", "array"} -> TRUE
      [] OTHER -> FALSE

(***************************************************************************)
(* Strings: String.prototype.toLowerCase / includes / trim / startsWith    *)
(***************************************************************************)
UpperChars == "ABCDEFGHIJKLMNOPQRSTUVWXYZ"
LowerChars == "abcdefghijklmnopqrstuvwxyz"
Digits == "0123456789"

CharAt(s, i) == SubSeq(s, i, i)

\* position of the one-character string c in the alphabet a, 0 when absent
IndexIn(a, c) ==
    LET hits == {i \in 1..Len(a) : CharAt(a, i) = c}
    IN  IF hits = {} THEN 0 ELSE CHOOSE i \in hits : TRUE

\* the lower-case letter of every upper-case letter
LowerOf ==
    [c \in {CharAt(UpperChars, i) : i \in 1..Len(UpperChars)} |->
        CharAt(LowerChars, IndexIn(UpperChars, c))]

LowerChar(c) == IF c \in DOMAIN LowerOf THEN LowerOf[c] ELSE c

RECURSIVE toLowerCase(_)
toLowerCase(s) ==
    IF s = "" THEN "" ELSE LowerChar(Head(s)) \o toLowerCase(Tail(s))

includes(s, k) ==
    \E i \in 1..(Len(s) - Len(k) + 1) : SubSeq(s, i, i + Len(k) - 1) = k

startsWith(s, k) == Len(s) >= Len(k) /\ SubSeq(s, 1, Len(k)) = k

\* startsWith at position i (1-based) of s
StartsAt(s, i, k) ==
    i + Len(k) - 1 <= Len(s) /\ SubSeq(s, i, i + Len(k) - 1) = k

IsSpace(c) == c = " "
IsDigit(c) == IndexIn(Digits, c) # 0
DigitVal(c) == IndexIn(Digits, c) - 1

RECURSIVE TrimLeft(_)
TrimLeft(s) == IF s # "" /\ IsSpace(Head(s)) THEN TrimLeft(Tail(s)) ELSE s

RECURSIVE TrimRight(_)
TrimRight(s) ==
    IF s # "" /\ IsSpace(CharAt(s, Len(s)))
    THEN TrimRight(SubSeq(s, 1, Len(s) - 1)) ELSE s

trim(s) == TrimRight(TrimLeft(s))

\* parseInt(digits, 10) of a string of decimal digits ("" gives NaN: -1 here,
\* never produced by the callers below)
RECURSIVE DigitsValue(_, _)
DigitsValue(s, acc) ==
    IF s = "" THEN acc
    ELSE DigitsValue(Tail(s), 10 * acc + DigitVal(Head(s)))

parseInt(s) == IF s = "" THEN -1 ELSE DigitsValue(s, 0)

\* s.replace(/[^\d]/g, "")
RECURSIVE OnlyDigits(_)
OnlyDigits(s) ==
    IF s = "" THEN ""
    ELSE (IF IsDigit(Head(s)) THEN Head(s) ELSE "") \o OnlyDigits(Tail(s))

(***************************************************************************)
(* The two regular expressions of the parsers                              *)
(***************************************************************************)
Min(S) == CHOOSE x \in S : \A y \in S : x <= y
Max(S) == CHOOSE x \in S : \A y \in S : x >= y

DigitPositions(s) == {i \in 1..Len(s) : IsDigit(CharAt(s, i))}

\* [\d\.'] : a character that may continue a grouped number (the regular
\* expression also lists the typographic apostrophe, which no text of the
\* model contains)
IsGroupChar(c) == IsDigit(c) \/ c = "." \/ c = "'"

\* last position of the maximal run of characters satisfying the class that
\* starts at i (i - 1 when the run is empty)
RECURSIVE GroupRunEnd(_, _)
GroupRunEnd(s, i) ==
    IF i <= Len(s) /\ IsGroupChar(CharAt(s, i)) THEN GroupRunEnd(s, i + 1)
    ELSE i - 1

RECURSIVE DigitRunEnd(_, _)
DigitRunEnd(s, i) ==
    IF i <= Len(s) /\ IsDigit(CharAt(s, i)) THEN DigitRunEnd(s, i + 1)
    ELSE i - 1

RECURSIVE SkipSpaces(_, _)
SkipSpaces(s, i) ==
    IF i <= Len(s) /\ IsSpace(CharAt(s, i)) THEN SkipSpaces(s, i + 1) ELSE i

\* s.match(/(\d[\d\.'’]*\d|\d+)/): the leftmost match, "" when there is none.
\* It starts at the first digit; the first alternative takes the longest run
\* of group characters that ends in a digit, the second a lone digit.
NumberMatch(s) ==
    IF DigitPositions(s) = {} THEN ""
    ELSE LET i == Min(DigitPositions(s))
             r == GroupRunEnd(s, i + 1)
             e == Max({j \in i..r : IsDigit(CharAt(s, j))})
         IN  SubSeq(s, i, e)

\* the unit alternatives of the duration expression, as a set of literal
\* prefixes: settimane|sett\.?|weeks?|mesi|mese|months?
UnitsK == {"settimane", "sett", "week", "mesi", "mese", "month"}
\* settimane|sett\.?|mesi|mese
UnitsV == {"settimane", "sett", "mesi", "mese"}

\* s.match(/(\d+)\s*(<units>)/): <<match[1], unit prefix>> of the leftmost
\* match, <<>> when there is none
DurationMatch(s, units) ==
    LET starts == {i \in DigitPositions(s) :
                     \E u \in units :
                        StartsAt(s, SkipSpaces(s, DigitRunEnd(s, i) + 1), u)}
    IN  IF starts = {} THEN <<>>
        ELSE LET i == Min(starts)
                 r == DigitRunEnd(s, i)
                 p == SkipSpaces(s, r + 1)
             IN  <<SubSeq(s, i, r),
                   IF StartsAt(s, p, "mes") THEN "mes"
                   ELSE IF StartsAt(s, p, "month") THEN "month"
                   ELSE "w">>

(***************************************************************************)
(* Deterministic extractor, "keyword" revision (src/unnamed/part_002)      *)
(***************************************************************************)
hasCurrency(lower) ==
    \/ includes(lower, "€")
    \/ includes(lower, "euro")
    \/ includes(lower, " eur")
    \/ includes(lower, " k")
    \/ includes(lower, " mila")

\* faulty variant: the amount is read only when the text begins with it
parseBudgetKLeading(text) ==
    LET lower == toLowerCase(text)
        match == NumberMatch(lower)
    IN  IF match = "" \/ ~startsWith(lower, match) THEN NULL
        ELSE LET value == parseInt(OnlyDigits(match))
             IN  IF ~hasCurrency(lower) /\ value < 100 THEN NULL
                 ELSE Num(value)

parseBudgetK(text) ==
    LET lower == toLowerCase(text)
        match == NumberMatch(lower)
    IN  IF match = "" THEN NULL
        ELSE LET value == parseInt(OnlyDigits(match))
             IN  IF ~hasCurrency(lower) /\ value < 100 THEN NULL
                 ELSE Num(value)

parseCountryCodeK(text) ==
    LET lower == toLowerCase(text)
    IN  IF \/ includes(lower, "usa")
           \/ includes(lower, "stati uniti")
           \/ includes(lower, "america")
        THEN Str("us")
        ELSE IF includes(lower, "canada") \/ includes(lower, "canadà")
        THEN Str("canada")
        ELSE IF \/ includes(lower, "boston")
                \/ includes(lower, "new york")
                \/ includes(lower, "los angeles")
                \/ includes(lower, "san diego")
        THEN Str("us")
        ELSE IF \/ includes(lower, "toronto")
                \/ includes(lower, "vancouver")
                \/ includes(lower, "montreal")
                \/ includes(lower, "calgary")
        THEN Str("canada")
        ELSE NULL

parseWeeksK(text) ==
    LET lower == toLowerCase(text)
        match == DurationMatch(lower, UnitsK)
    IN  IF includes(lower, "estate") \/ includes(lower, "summer") THEN Num(12)
        ELSE IF includes(lower, "semestre") \/ includes(lower, "semester")
        THEN Num(24)
        ELSE IF includes(lower, "anno") \/ includes(lower, "year") THEN Num(48)
        ELSE IF match # <<>>
        THEN LET num == parseInt(match[1])
             IN  IF match[2] \in {"mes", "month"} THEN Num(num * 4)
                 ELSE Num(num)
        ELSE NULL

parseGoal(text) ==
    LET lower == toLowerCase(text)
    IN  IF \/ includes(lower, "cultur")
           \/ includes(lower, "cresc")
           \/ includes(lower, "personal")
           \/ includes(lower, "univers")
           \/ includes(lower, "lavor")
           \/ includes(lower, "inglese")
           \/ includes(lower, "toefl")
           \/ includes(lower, "ielts")
           \/ includes(lower, "accadem")
        THEN Str(trim(text))
        ELSE NULL

isProgramIntentK(text) ==
    LET lower == toLowerCase(text)
    IN  \/ includes(lower, "usa")
        \/ includes(lower, "canada")
        \/ includes(lower, "all'estero")
        \/ includes(lower, "anno")
        \/ includes(lower, "semestre")
        \/ includes(lower, "exchange")
        \/ includes(lower, "programma")
        \/ includes(lower, "programmi")
        \/ parseBudgetK(text) # NULL

(***************************************************************************)
(* Deterministic extractor, "verbatim" revision (src/server.js, 333-390)   *)
(***************************************************************************)
parseBudgetV(text) ==
    LET match == NumberMatch(toLowerCase(text))
    IN  IF match = "" THEN NULL ELSE Num(parseInt(OnlyDigits(match)))

parseCountryCodeV(text) ==
    LET lower == toLowerCase(text)
    IN  IF \/ includes(lower, "usa")
           \/ includes(lower, "stati uniti")
           \/ includes(lower, "stato unito")
           \/ includes(lower, "america")
        THEN Str("us")
        ELSE IF includes(lower, "canada") \/ includes(lower, "canadà")
        THEN Str("canada")
        ELSE NULL

parseWeeksV(text) ==
    LET lower == toLowerCase(text)
        match == DurationMatch(lower, UnitsV)
    IN  IF includes(lower, "estate") THEN Num(12)
        ELSE IF includes(lower, "semestre") THEN Num(24)
        ELSE IF includes(lower, "anno") THEN Num(48)
        ELSE IF match # <<>>
        THEN LET num == parseInt(match[1])
             IN  IF match[2] = "mes" THEN Num(num * 4) ELSE Num(num)
        ELSE NULL

isProgramIntentV(text) ==
    LET lower == toLowerCase(text)
    IN  \/ includes(lower, "usa")
        \/ includes(lower, "canada")
        \/ includes(lower, "programma")
        \/ includes(lower, "all'estero")
        \/ includes(lower, "estero")
        \/ includes(lower, "semestre")
        \/ includes(lower, "anno")
        \/ includes(lower, "summer")
        \/ includes(lower, "exchange")
        \/ parseBudgetV(text) # NULL

(***************************************************************************)
(* Reference data and the comparison engine                                *)
(***************************************************************************)
Obj(o) == [t |-> "object", o |-> o]
Arr(items) == [t |-> "array", items |-> items]
\* a file whose content JSON.parse rejects
CORRUPT == [t |-> "corrupt"]

Program(name, city, tuition, housing, fees) ==
    [name |-> name, city |-> city, tuition_per_week |-> tuition,
     housing_per_week |-> housing, fees |-> fees, notes |-> "n/a"]

PartnersUS ==
    <<Program("Harbor College", "Boston", 300, 200, 500),
      Program("Pacific School", "San Diego", 250, 150, 300),
      Program("Midtown Institute", "New York", 400, 300, 600),
      Program("Sunset Academy", "Los Angeles", 250, 150, 300)>>

\* the states of the partners directory the model starts from
PartnerConfigs == { [c \in {"us"} |-> Arr(PartnersUS)] }

\* loadPartners: [threw |-> FALSE, value |-> what it returns]; a missing or
\* unparseable file is caught inside and gives []
loadPartners(files, countryCode) ==
    LET name == IF countryCode.t = "string" THEN countryCode.s ELSE ""
    IN  IF name \notin DOMAIN files THEN Arr(<<>>)
        ELSE IF files[name] = CORRUPT THEN Arr(<<>>)
        ELSE files[name]

\* faulty variant: the fees are left out of the total
EntryWithoutFees(p, budget, weeks) ==
    LET tuition == p.tuition_per_week * weeks
        housing == p.housing_per_week * weeks
        total == tuition + housing
    IN  [name |-> p.name, city |-> p.city,
         tuition_per_week |-> p.tuition_per_week,
         housing_per_week |-> p.housing_per_week,
         fees |-> p.fees, notes |-> p.notes,
         total |-> total, tuition |-> tuition, housing |-> housing,
         fitsBudget |-> total <= budget]

Entry(p, budget, weeks) ==
    LET tuition == p.tuition_per_week * weeks
        housing == p.housing_per_week * weeks
        total == tuition + housing + p.fees
    IN  [name |-> p.name, city |-> p.city,
         tuition_per_week |-> p.tuition_per_week,
         housing_per_week |-> p.housing_per_week,
         fees |-> p.fees, notes |-> p.notes,
         total |-> total, tuition |-> tuition, housing |-> housing,
         fitsBudget |-> total <= budget]

\* faulty variant: the most expensive entry comes first
RECURSIVE InsertByTotalDescending(_, _)
InsertByTotalDescending(e, sorted) ==
    IF sorted = <<>> THEN <<e>>
    ELSE IF e.total > Head(sorted).total THEN <<e>> \o sorted
    ELSE <<Head(sorted)>> \o InsertByTotalDescending(e, Tail(sorted))

\* Array.prototype.sort((a, b) => a.total - b.total): stable
RECURSIVE InsertByTotal(_, _)
InsertByTotal(e, sorted) ==
    IF sorted = <<>> THEN <<e>>
    ELSE IF e.total < Head(sorted).total THEN <<e>> \o sorted
    ELSE <<Head(sorted)>> \o InsertByTotal(e, Tail(sorted))

RECURSIVE SortByTotal(_)
SortByTotal(es) ==
    IF es = <<>> THEN <<>>
    ELSE InsertByTotal(es[Len(es)], SortByTotal(SubSeq(es, 1, Len(es) - 1)))

\* comparePrograms({countryCode, budget, weeks}) with numeric budget and weeks:
\* [threw |-> a TypeError escapes, programs |-> the sorted entries]
comparePrograms(files, countryCode, budget, weeks) ==
    LET loaded == loadPartners(files, countryCode)
    IN  CASE loaded.t \in {"null", "undefined"} ->
                 \* null.length throws
                 [threw |-> TRUE, programs |-> <<>>]
          [] loaded.t = "array" /\ Len(loaded.items) > 0 ->
                 [threw |-> FALSE,
                  programs |-> SortByTotal(
                      [i \in 1..Len(loaded.items) |->
                          Entry(loaded.items[i], budget, weeks)])]
          [] OTHER ->
                 \* [] or a value without a length: !partners.length
                 [threw |-> FALSE, programs |-> <<>>]

\* faulty variant: a ratio of exactly 0.1 still scores 4.5
matchScoreInclusive(total, budget) ==
    LET diff == total - budget
    IN  IF diff <= 0 THEN 50
        ELSE IF budget < 0 THEN 45
        ELSE IF budget = 0 THEN 25
        ELSE IF 10 * diff <= budget THEN 45
        ELSE IF 10 * diff < 2 * budget THEN 40
        ELSE IF 10 * diff < 3 * budget THEN 35
        ELSE IF 10 * diff < 5 * budget THEN 30
        ELSE 25

\* faulty variant: the steps for ratios below 0.2 and below 0.3 are swapped
matchScoreSwapped(total, budget) ==
    LET diff == total - budget
    IN  IF diff <= 0 THEN 50
        ELSE IF budget < 0 THEN 45
        ELSE IF budget = 0 THEN 25
        ELSE IF 10 * diff < budget THEN 45
        ELSE IF 10 * diff < 2 * budget THEN 35
        ELSE IF 10 * diff < 3 * budget THEN 40
        ELSE IF 10 * diff < 5 * budget THEN 30
        ELSE 25

\* matchScore(total, budget) in tenths (50 is 5.0), for integer arguments.
\* ratio = diff / budget is compared exactly: for integers of this size the
\* rounded quotient is below the double 0.1 (0.2, 0.3, 0.5) exactly when the
\* rational one is below 1/10 (2/10, 3/10, 5/10). With diff > 0 a negative
\* budget gives a negative ratio and budget 0 gives Infinity.
matchScore(total, budget) ==
    LET diff == total - budget
    IN  IF diff <= 0 THEN 50
        ELSE IF budget < 0 THEN 45
        ELSE IF budget = 0 THEN 25
        ELSE IF 10 * diff < budget THEN 45
        ELSE IF 10 * diff < 2 * budget THEN 40
        ELSE IF 10 * diff < 3 * budget THEN 35
        ELSE IF 10 * diff < 5 * budget THEN 30
        ELSE 25

\* faulty variant: a score of exactly 4.5 is tagged as a good match
badgeArrayExclusive(p, score) ==
    LET cityLower == toLowerCase(p.city)
    IN  <<IF p.fitsBudget THEN "[Budget ok]" ELSE "[Sopra budget]">>
        \o (IF includes(cityLower, "boston") \/ includes(cityLower, "new york")
            THEN <<"[Focus accademico]">> ELSE <<>>)
        \o (IF \/ includes(cityLower, "los angeles")
               \/ includes(cityLower, "san diego")
               \/ includes(cityLower, "vancouver")
            THEN <<"[Lifestyle e outdoor]">> ELSE <<>>)
        \o (IF includes(cityLower, "toronto")
            THEN <<"[Grande città]">> ELSE <<>>)
        \o <<IF score > 45 THEN "[Match molto alto]"
              ELSE IF score >= 40 THEN "[Buon match]"
              ELSE IF score >= 35 THEN "[Compromesso budget]"
              ELSE "[Usa come riferimento]">>

\* badgeArray(p, score), the score in tenths
badgeArray(p, score) ==
    LET cityLower == toLowerCase(p.city)
    IN  <<IF p.fitsBudget THEN "[Budget ok]" ELSE "[Sopra budget]">>
        \o (IF includes(cityLower, "boston") \/ includes(cityLower, "new york")
            THEN <<"[Focus accademico]">> ELSE <<>>)
        \o (IF \/ includes(cityLower, "los angeles")
               \/ includes(cityLower, "san diego")
               \/ includes(cityLower, "vancouver")
            THEN <<"[Lifestyle e outdoor]">> ELSE <<>>)
        \o (IF includes(cityLower, "toronto")
            THEN <<"[Grande città]">> ELSE <<>>)
        \o <<IF score >= 45 THEN "[Match molto alto]"
              ELSE IF score >= 40 THEN "[Buon match]"
              ELSE IF score >= 35 THEN "[Compromesso budget]"
              ELSE "[Usa come riferimento]">>

\* faulty variant: every program gets a card
CardsAll(programs, budget) ==
    [i \in 1..Len(programs) |->
        [index |-> i, name |-> programs[i].name, city |-> programs[i].city,
         total |-> programs[i].total,
         score |-> matchScore(programs[i].total, budget),
         tags |-> badgeArray(programs[i],
                             matchScore(programs[i].total, budget))]]

\* programs.slice(0, 3).map((p, index) => ...): what a card is built from
Cards(programs, budget) ==
    [i \in 1..Min({3, Len(programs)}) |->
        [index |-> i, name |-> programs[i].name, city |-> programs[i].city,
         total |-> programs[i].total,
         score |-> matchScore(programs[i].total, budget),
         tags |-> badgeArray(programs[i],
                             matchScore(programs[i].total, budget))]]

(***************************************************************************)
(* Sessions, requests and responses                                        *)
(***************************************************************************)
MAX_MESSAGES_FREE == 20

\* bound on the handlers suspended on an OpenAI call at one time
MaxInFlight == 2

SessionIds == {"s1"}

\* message texts sent by clients of the deterministic revisions
Messages ==
    { "Ho 9000 euro per un anno negli USA",
      "12000 euro",
      "3 mesi",
      "Canada",
      "esperienza culturale",
      "ciao" }

\* the wizard object; a key the object does not have is undefined
EmptyWizard ==
    [started |-> UNDEF, budget |-> UNDEF, countryCode |-> UNDEF,
     weeks |-> UNDEF, goal |-> UNDEF, city |-> UNDEF]

\* { started: false }
NewWizardK == [EmptyWizard EXCEPT !.started = Bool(FALSE)]

\* faulty variant: a new session shares the record of an existing one
SessionShared(sid, freshWizard) ==
    IF sid \in DOMAIN sessions THEN sessions[sid]
    ELSE IF DOMAIN sessions # {}
    THEN sessions[CHOOSE k \in DOMAIN sessions : TRUE]
    ELSE [count |-> 0, wizard |-> freshWizard]

\* sessions.get(sessionId), or the session the handler creates and stores
Session(sid, freshWizard) ==
    IF sid \in DOMAIN sessions THEN sessions[sid]
    ELSE [count |-> 0, wizard |-> freshWizard]

\* sessions.set(key, value) on a Map held as a function
Put(map, key, value) ==
    [k \in DOMAIN map \cup {key} |-> IF k = key THEN value ELSE map[k]]

Remove(seq, i) == SubSeq(seq, 1, i - 1) \o SubSeq(seq, i + 1, Len(seq))

\* what the handler sent: status and type of the JSON body, the branch that
\* produced it (route), which reply text (reply), the trimmed text of the
\* turn, and whether comparePrograms was called, with which slots and how
\* many programs it returned; note: the reply carries the closest-alternative
\* note of the delegated revision
Response(sid, status, type, route, reply, text, compared, args, n) ==
    [sid |-> sid, status |-> status, type |-> type, route |-> route,
     reply |-> reply, text |-> text, compared |-> compared, args |-> args,
     n |-> n, note |-> FALSE]

\* the engine has not been called directly
NoCall == [op |-> "none"]

NoResponse == Response("", 0, "none", "none", "none", "", FALSE, EmptyWizard, 0)

\* faulty variant: the quota check lets one turn too many through
LimitReachedOver(session) == session.count > MAX_MESSAGES_FREE

LimitReached(session) == session.count >= MAX_MESSAGES_FREE

LimitResponse(sid) ==
    Response(sid, 200, "limit_reached", "limit", "limit", "", FALSE,
             EmptyWizard, 0)

\* the catch block: res.status(500).json({ error: "Errore server" })
ErrorResponse(sid, text, compared, args) ==
    Response(sid, 500, "error", "error", "server_error", text, compared,
             args, 0)

\* What the parsers of each revision return for the trimmed text of every
\* message: the handlers below read the parsers through these tables.
\* messages that state an amount with a currency marker, a country and a
\* duration keyword, with the values the three phrases stand for
OrderCases ==
    { [parts |-> <<"9000 euro", "negli USA", "per un anno">>,
       budget |-> 9000, countryCode |-> "us", weeks |-> 48],
      [parts |-> <<"€ 12000", "in Canada", "un semestre">>,
       budget |-> 12000, countryCode |-> "canada", weeks |-> 24],
      [parts |-> <<"8.500 euro", "in America", "questa estate">>,
       budget |-> 8500, countryCode |-> "us", weeks |-> 12] }

\* the three phrases of a case in the order p, separated by spaces
OrderText(c, p) ==
    c.parts[p[1]] \o " " \o c.parts[p[2]] \o " " \o c.parts[p[3]]

OrderTexts ==
    { OrderText(c, p) : c \in OrderCases, p \in Permutations(1..3) }

\* messages built from a quantity, a unit and a closing phrase, for the direct
\* calls of the parsers: small and large amounts, a dotted number, every unit
\* of the duration expression, the duration keywords, no number at all
TextParts ==
    [quantity |-> {"", "3", "12", "0", "99", "100", "10.09", "1500"},
     unit |-> {"", " mesi", " mese", " settimane", "sett.", " weeks",
               " months", " giorni", " euro"},
     keyword |-> {"", " in estate", " per un semestre", " per un anno",
                  " next summer", " a Kansas"}]

ParseTexts ==
    { q \o u \o k : q \in TextParts.quantity, u \in TextParts.unit,
                    k \in TextParts.keyword }

\* answers to the four questions of the wizard: amounts, countries, durations
\* and goals
AnswerTexts ==
    { "12000 euro", "9000 euro", "3000", "8.500 euro",
      "USA", "Canada",
      "3 mesi", "24 settimane", "un semestre", "un anno",
      "esperienza culturale", "migliorare l'inglese" }

DetectedK ==
    [m \in Messages \cup OrderTexts \cup ParseTexts \cup AnswerTexts |->
        LET text == trim(m)
        IN  [text |-> text,
             budget |-> parseBudgetK(text),
             countryCode |-> parseCountryCodeK(text),
             weeks |-> parseWeeksK(text),
             goal |-> parseGoal(text),
             intent |-> isProgramIntentK(text)]]

DetectedV ==
    [m \in Messages \cup AnswerTexts |->
        LET text == trim(m)
        IN  [text |-> text,
             budget |-> parseBudgetV(text),
             countryCode |-> parseCountryCodeV(text),
             weeks |-> parseWeeksV(text),
             goal |-> NULL,
             intent |-> isProgramIntentV(text)]]

(***************************************************************************)
(* Deterministic wizard, shared pieces                                     *)
(***************************************************************************)
\* if (detected && !wizard.slot) wizard.slot = detected
\* faulty variant: a detected value overwrites the stored one
MergeSlotOverwrite(detected, current) ==
    IF Truthy(detected) THEN detected ELSE current

MergeSlot(detected, current) ==
    IF Truthy(detected) /\ ~Truthy(current) THEN detected ELSE current

\* faulty variant: a stored goal does not make the wizard active
wizardActiveNoGoal(w) ==
    Truthy(w.budget) \/ Truthy(w.countryCode) \/ Truthy(w.weeks)

wizardActive(w) ==
    Truthy(w.budget) \/ Truthy(w.countryCode) \/ Truthy(w.weeks)
        \/ Truthy(w.goal)

\* faulty variant: the comparison does not wait for the goal
AllSetNoGoal(w) ==
    Truthy(w.budget) /\ Truthy(w.countryCode) /\ Truthy(w.weeks)

AllSet(w) ==
    Truthy(w.budget) /\ Truthy(w.countryCode) /\ Truthy(w.weeks)
        /\ Truthy(w.goal)

\* faulty variant: the country is asked before the budget
QuestionCountryFirst(w) ==
    IF ~Truthy(w.countryCode) THEN "ask_country"
    ELSE IF ~Truthy(w.budget) THEN "ask_budget"
    ELSE IF ~Truthy(w.weeks) THEN "ask_weeks"
    ELSE IF ~Truthy(w.goal) THEN "ask_goal"
    ELSE "none"

\* the question of the AskMore reply: the first missing slot in the order
\* budget, country, duration, goal
Question(w) ==
    IF ~Truthy(w.budget) THEN "ask_budget"
    ELSE IF ~Truthy(w.countryCode) THEN "ask_country"
    ELSE IF ~Truthy(w.weeks) THEN "ask_weeks"
    ELSE IF ~Truthy(w.goal) THEN "ask_goal"
    ELSE "none"

\* faulty variant: the slot record is kept after a comparison with results
CompareAndReplyKeep(sid, text, w, resetTo) ==
    LET res == comparePrograms(partners, w.countryCode, w.budget.n, w.weeks.n)
    IN  IF res.threw
        THEN [wizard |-> w, await |-> FALSE,
              resp |-> ErrorResponse(sid, text, TRUE, w)]
        ELSE IF Len(res.programs) > 0
        THEN [wizard |-> w, await |-> FALSE,
              resp |-> Response(sid, 200, "ok", "ready", "results", text,
                                TRUE, w, Len(res.programs))]
        ELSE [wizard |-> w, await |-> FALSE,
              resp |-> Response(sid, 200, "ok", "ready", "no_match", text,
                                TRUE, w, 0)]

\* the comparison branch: comparePrograms, then the cards and the reset, or
\* the no-match reply; resetTo is the object the handler stores on success
CompareAndReply(sid, text, w, resetTo) ==
    LET res == comparePrograms(partners, w.countryCode, w.budget.n, w.weeks.n)
    IN  IF res.threw
        THEN [wizard |-> w, await |-> FALSE,
              resp |-> ErrorResponse(sid, text, TRUE, w)]
        ELSE IF Len(res.programs) > 0
        THEN [wizard |-> resetTo, await |-> FALSE,
              resp |-> Response(sid, 200, "ok", "ready", "results", text,
                                TRUE, w, Len(res.programs))]
        ELSE [wizard |-> w, await |-> FALSE,
              resp |-> Response(sid, 200, "ok", "ready", "no_match", text,
                                TRUE, w, 0)]

\* the reply when some slot is missing
AskMore(sid, text, w) ==
    [wizard |-> w, await |-> FALSE,
     resp |-> Response(sid, 200, "ok", "ask", Question(w), text, FALSE,
                       EmptyWizard, 0)]

\* the handler reached `await client.chat.completions.create` of the generic
\* responder: nothing is sent yet
AwaitGeneric(sid, text, w) ==
    [wizard |-> w, await |-> TRUE,
     resp |-> Response(sid, 200, "ok", "offtopic", "generic", text, FALSE,
                       EmptyWizard, 0)]

(***************************************************************************)
(* "keyword" revision, app.post("/chat") (src/unnamed/part_002, 288-542)   *)
(***************************************************************************)
ExtractK(w, d) ==
    [w EXCEPT !.budget = MergeSlot(d.budget, @),
              !.countryCode = MergeSlot(d.countryCode, @),
              !.weeks = MergeSlot(d.weeks, @),
              !.goal = MergeSlot(d.goal, @)]

\* faulty variant: the generic responder is awaited whenever the message
\* shows no intent, also after a slot was written
TurnKAwaitsAfterMerge(sid, d, w0) ==
    LET w1 == ExtractK(w0, d)
        w2 == [w1 EXCEPT !.started = Bool(TRUE)]
    IN  IF ~d.intent
        THEN AwaitGeneric(sid, d.text, w1)
        ELSE IF ~AllSet(w2) THEN AskMore(sid, d.text, w2)
        ELSE CompareAndReply(sid, d.text, w2, NewWizardK)

\* the turn after the quota check: the wizard it leaves and what it sends
TurnK(sid, d, w0) ==
    LET w1 == ExtractK(w0, d)
        w2 == [w1 EXCEPT !.started = Bool(TRUE)]
    IN  IF ~wizardActive(w1) /\ ~d.intent
        THEN AwaitGeneric(sid, d.text, w1)
        ELSE IF ~AllSet(w2) THEN AskMore(sid, d.text, w2)
        ELSE CompareAndReply(sid, d.text, w2, NewWizardK)

(***************************************************************************)
(* "verbatim" revision, app.post("/chat") (src/server.js, 394-656)         *)
(***************************************************************************)
\* faulty variant: the text of the turn is never taken as the goal
ExtractVNoFallback(w, d) ==
    [w EXCEPT !.budget = MergeSlot(d.budget, @),
              !.countryCode = MergeSlot(d.countryCode, @),
              !.weeks = MergeSlot(d.weeks, @)]

ExtractV(w, d) ==
    LET detectedBudget == d.budget
        detectedCountry == d.countryCode
        detectedWeeks == d.weeks
        w1 == [w EXCEPT !.budget = MergeSlot(detectedBudget, @),
                        !.countryCode = MergeSlot(detectedCountry, @),
                        !.weeks = MergeSlot(detectedWeeks, @)]
    IN  IF /\ Truthy(w1.budget) /\ Truthy(w1.countryCode) /\ Truthy(w1.weeks)
           /\ ~Truthy(w1.goal)
           /\ ~Truthy(detectedBudget) /\ ~Truthy(detectedCountry)
           /\ ~Truthy(detectedWeeks)
        THEN [w1 EXCEPT !.goal = Str(d.text)]
        ELSE w1

TurnV(sid, d, w0) ==
    LET w1 == ExtractV(w0, d)
    IN  IF ~wizardActive(w1) /\ ~d.intent
        THEN AwaitGeneric(sid, d.text, w1)
        ELSE IF ~AllSet(w1) THEN AskMore(sid, d.text, w1)
        ELSE CompareAndReply(sid, d.text, w1, EmptyWizard)

(***************************************************************************)
(* Actions of the deterministic revisions                                  *)
(***************************************************************************)
\* faulty variant: the merge runs before the quota check
DetChatMergesFirst(sid, message, fresh, turn) ==
    LET s0 == Session(sid, fresh)
    IN  IF LimitReached(s0)
        THEN /\ sessions' = Put(sessions, sid,
                                [s0 EXCEPT !.wizard = turn.wizard])
             /\ last' = LimitResponse(sid)
             /\ UNCHANGED pending
        ELSE LET t == turn
             IN  /\ sessions' = Put(sessions, sid,
                                    [count |-> s0.count + 1,
                                     wizard |-> t.wizard])
                 /\ IF t.await
                    THEN /\ Len(pending) < MaxInFlight
                         /\ pending' = Append(pending,
                                [kind |-> "generic", sid |-> sid,
                                 text |-> t.resp.text,
                                 wizard |-> EmptyWizard])
                         /\ last' = last
                    ELSE /\ pending' = pending
                         /\ last' = t.resp

\* faulty variant: the reset after the cards starts a new session record,
\* counter included
DetChatResetsCounter(sid, message, fresh, turn) ==
    LET s0 == Session(sid, fresh)
    IN  IF LimitReached(s0)
        THEN /\ sessions' = Put(sessions, sid, s0)
             /\ last' = LimitResponse(sid)
             /\ UNCHANGED pending
        ELSE LET t == turn
             IN  /\ sessions' = Put(sessions, sid,
                                    [count |-> IF t.resp.reply = "results"
                                               THEN 0 ELSE s0.count + 1,
                                     wizard |-> t.wizard])
                 /\ IF t.await
                    THEN /\ Len(pending) < MaxInFlight
                         /\ pending' = Append(pending,
                                [kind |-> "generic", sid |-> sid,
                                 text |-> t.resp.text,
                                 wizard |-> EmptyWizard])
                         /\ last' = last
                    ELSE /\ pending' = pending
                         /\ last' = t.resp

\* one run of the handler up to its response or its await
DetChat(sid, message, fresh, turn) ==
    LET s0 == Session(sid, fresh)
    IN  IF LimitReached(s0)
        THEN /\ sessions' = Put(sessions, sid, s0)
             /\ last' = LimitResponse(sid)
             /\ UNCHANGED pending
        ELSE LET t == turn
             IN  /\ sessions' = Put(sessions, sid,
                                    [count |-> s0.count + 1,
                                     wizard |-> t.wizard])
                 /\ IF t.await
                    THEN /\ Len(pending) < MaxInFlight
                         /\ pending' = Append(pending,
                                [kind |-> "generic", sid |-> sid,
                                 text |-> t.resp.text,
                                 wizard |-> EmptyWizard])
                         /\ last' = last
                    ELSE /\ pending' = pending
                         /\ last' = t.resp

ChatK(sid, message) ==
    /\ rev = "keyword"
    /\ DetChat(sid, message, NewWizardK,
               TurnK(sid, DetectedK[message],
                     Session(sid, NewWizardK).wizard))
    /\ UNCHANGED <<rev, partners, lost, engine>>

ChatV(sid, message) ==
    /\ rev = "verbatim"
    /\ DetChat(sid, message, EmptyWizard,
               TurnV(sid, DetectedV[message],
                     Session(sid, EmptyWizard).wizard))
    /\ UNCHANGED <<rev, partners, lost, engine>>

\* the generic responder answers: the reply is sent, nothing is stored
GenericReplies(i) ==
    /\ i \in 1..Len(pending)
    /\ pending[i].kind = "generic"
    /\ last' = Response(pending[i].sid, 200, "ok", "offtopic", "generic",
                        pending[i].text, FALSE, EmptyWizard, 0)
    /\ pending' = Remove(pending, i)
    /\ UNCHANGED <<rev, sessions, partners, lost, engine>>

\* the generic responder call rejects: the catch block answers 500
GenericThrows(i) ==
    /\ i \in 1..Len(pending)
    /\ pending[i].kind = "generic"
    /\ last' = ErrorResponse(pending[i].sid, pending[i].text, FALSE,
                             EmptyWizard)
    /\ pending' = Remove(pending, i)
    /\ UNCHANGED <<rev, sessions, partners, lost, engine>>

\* if (!sessionId || !message) return res.status(400)
BadRequest(sid, message) ==
    /\ sid = "" \/ message = ""
    /\ last' = Response("", 400, "error", "bad_request", "bad_request", "",
                        FALSE, EmptyWizard, 0)
    /\ UNCHANGED <<rev, sessions, pending, partners, lost, engine>>

InitDet ==
    /\ rev \in {"keyword", "verbatim"}
    /\ sessions = <<>>
    /\ pending = <<>>
    /\ last = NoResponse
    /\ partners \in PartnerConfigs
    /\ lost = {}
    /\ engine = NoCall

NextDet ==
    \/ \E sid \in SessionIds, m \in Messages : ChatK(sid, m)
    \/ \E sid \in SessionIds, m \in Messages : ChatV(sid, m)
    \/ \E i \in 1..MaxInFlight : GenericReplies(i)
    \/ \E i \in 1..MaxInFlight : GenericThrows(i)
    \/ \E sid \in SessionIds \cup {""}, m \in {"", "ciao"} : BadRequest(sid, m)

SpecDet == InitDet /\ [][NextDet]_vars

(***************************************************************************)
(* "delegated" revision (src/unnamed/part_003)                             *)
(***************************************************************************)
\* an updatedWizard object: the keys it carries (undefined: key absent)
Slots(budget, countryCode, weeks, goal, city) ==
    Obj([started |-> UNDEF, budget |-> budget, countryCode |-> countryCode,
         weeks |-> weeks, goal |-> goal, city |-> city])

\* the object the model's JSON parses to
Parsed(updatedWizard, action, reply) ==
    [k |-> "json",
     v |-> Obj([updatedWizard |-> updatedWizard, action |-> action,
                reply |-> reply])]

\* message texts sent by clients of the delegated revision (the handler only
\* forwards the text)
MessagesL == {"Ho 9000 euro per un anno negli USA"}

\* what the chat completion call can produce: a rejection, or the content of
\* the first choice. budget and weeks are numbers or null throughout.
LLMContents ==
    { [k |-> "rejects"],
      [k |-> "unparseable"],
      [k |-> "json", v |-> NULL],
      [k |-> "json", v |-> Num(5)],
      Parsed(UNDEF, UNDEF, UNDEF),
      Parsed(Slots(Num(12000), Str("canada"), NULL, NULL, NULL),
             UNDEF, Str("r")),
      Parsed(UNDEF, Str("ready_to_compare"), Str("r")),
      Parsed(Slots(Num(9000), NULL, NULL, NULL, NULL),
             Str("ask_more"), Str("r")),
      Parsed(Slots(Num(9000), Str("us"), Num(24), Str("studio"),
                   Str("NEW YORK")),
             Str("ready_to_compare"), Str("r")),
      Parsed(Slots(Num(-500), Str("us"), Num(24), Str("studio"),
                   Str("Parigi")),
             Str("ready_to_compare"), Str("r")),
      Parsed(Slots(Num(9000), Str("france"), Num(24), Str("studio"), NULL),
             Str("ready_to_compare"), Str("r")),
      Parsed(Slots(UNDEF, Str("us"), UNDEF, UNDEF, UNDEF),
             Str("off_topic"), Str("r")),
      Parsed(Slots(UNDEF, Str("us"), UNDEF, UNDEF, UNDEF),
             Str("ready_to_compare"), Str("r")),
      Parsed(Slots(UNDEF, Str("us"), UNDEF, UNDEF, UNDEF),
             Str("done"), UNDEF),
      Parsed(Str("x"), Str("ask_more"), Num(5)) }

\* faulty variant: the shape check does not look at action
runWizardControllerLLMNoAction(wizard, content) ==
    LET parsed == IF content.k = "json" THEN content.v ELSE NULL
    IN  IF \/ ~Truthy(parsed)
           \/ parsed.t # "object"
           \/ ~Truthy(parsed.o.updatedWizard)
        THEN [updatedWizard |-> Obj(wizard), action |-> Str("ask_more"),
              reply |-> Str("reprompt")]
        ELSE parsed.o

\* runWizardControllerLLM after the call resolved with `content`: JSON.parse,
\* the shape check, and the fallback object
runWizardControllerLLM(wizard, content) ==
    LET parsed == IF content.k = "json" THEN content.v ELSE NULL
    IN  IF \/ ~Truthy(parsed)
           \/ parsed.t # "object"
           \/ ~Truthy(parsed.o.updatedWizard)
           \/ ~Truthy(parsed.o.action)
        THEN [updatedWizard |-> Obj(wizard), action |-> Str("ask_more"),
              reply |-> Str("reprompt")]
        ELSE parsed.o

\* { ...wizard, ...(updatedWizard || {}) }: the own keys of an object
\* override; a string, number or boolean contributes no slot key
Spread(wizard, updatedWizard) ==
    IF updatedWizard.t = "object"
    THEN [key \in DOMAIN wizard |->
             IF updatedWizard.o[key] # UNDEF THEN updatedWizard.o[key]
             ELSE wizard[key]]
    ELSE wizard

\* which text the reply carries when it is control.reply || ""
ReplyKind(reply) ==
    IF ~Truthy(reply) THEN "empty"
    ELSE IF reply = Str("reprompt") THEN "reprompt"
    ELSE IF reply.t = "string" THEN "llm"
    ELSE "nonstring"

\* faulty variant: the requested city is compared as typed
cityNoteCaseSensitive(files, countryCode, city) ==
    IF ~Truthy(city) THEN FALSE
    ELSE LET partnersForCountry == loadPartners(files, countryCode).items
         IN  ~\E i \in 1..Len(partnersForCountry) :
                 partnersForCountry[i].city = city.s

\* whether cityNote is set: a city hint is given and no partner of the
\* country has that city, compared in lower case
cityNote(files, countryCode, city) ==
    IF ~Truthy(city) THEN FALSE
    ELSE LET requestedCityLower == toLowerCase(city.s)
             partnersForCountry == loadPartners(files, countryCode).items
         IN  ~\E i \in 1..Len(partnersForCountry) :
                 toLowerCase(partnersForCountry[i].city) = requestedCityLower

\* the ready_to_compare branch after the guard
\* faulty variant: the slot record is dropped after an empty comparison
CompareAndReplyLReset(sid, text, updated) ==
    LET res == comparePrograms(partners, updated.countryCode,
                               updated.budget.n, updated.weeks.n)
    IN  IF res.threw
        THEN [wizard |-> updated,
              resp |-> ErrorResponse(sid, text, TRUE, updated)]
        ELSE IF Len(res.programs) = 0
        THEN [wizard |-> EmptyWizard,
              resp |-> Response(sid, 200, "ok", "ready", "no_match", text,
                                TRUE, updated, 0)]
        ELSE [wizard |-> EmptyWizard,
              resp |-> [Response(sid, 200, "ok", "ready", "results", text,
                                 TRUE, updated, Len(res.programs))
                           EXCEPT !.note = cityNote(partners,
                                                    updated.countryCode,
                                                    updated.city)]]

CompareAndReplyL(sid, text, updated) ==
    LET res == comparePrograms(partners, updated.countryCode,
                               updated.budget.n, updated.weeks.n)
    IN  IF res.threw
        THEN [wizard |-> updated,
              resp |-> ErrorResponse(sid, text, TRUE, updated)]
        ELSE IF Len(res.programs) = 0
        THEN [wizard |-> updated,
              resp |-> Response(sid, 200, "ok", "ready", "no_match", text,
                                TRUE, updated, 0)]
        ELSE [wizard |-> EmptyWizard,
              resp |-> [Response(sid, 200, "ok", "ready", "results", text,
                                 TRUE, updated, Len(res.programs))
                           EXCEPT !.note = cityNote(partners,
                                                    updated.countryCode,
                                                    updated.city)]]

\* the handler from the merge to the response
TurnL(sid, text, wizard, control) ==
    LET updated == Spread(wizard, control.updatedWizard)
        action == control.action
        llmReply == ReplyKind(control.reply)
        Reply(route, reply) ==
            [wizard |-> updated,
             resp |-> Response(sid, 200, "ok", route, reply, text, FALSE,
                               EmptyWizard, 0)]
    IN  IF action = Str("off_topic") THEN Reply("offtopic", llmReply)
        ELSE IF action = Str("ask_more") THEN Reply("ask", llmReply)
        ELSE IF action = Str("ready_to_compare")
        THEN IF ~AllSet(updated) THEN Reply("guard", "guard")
             ELSE CompareAndReplyL(sid, text, updated)
        ELSE Reply("fallback", "safety")

\* faulty variant: an accepted turn is not counted
StartLNoCount(sid, message) ==
    /\ rev = "delegated"
    /\ LET s0 == Session(sid, EmptyWizard)
       IN  IF LimitReached(s0)
           THEN /\ sessions' = Put(sessions, sid, s0)
                /\ last' = LimitResponse(sid)
                /\ UNCHANGED pending
           ELSE /\ Len(pending) < MaxInFlight
                /\ sessions' = Put(sessions, sid, s0)
                /\ pending' = Append(pending,
                                [kind |-> "controller", sid |-> sid,
                                 text |-> trim(message),
                                 wizard |-> s0.wizard])
                /\ last' = last
    /\ UNCHANGED <<rev, partners, lost, engine>>

\* the handler up to `await runWizardControllerLLM`
StartL(sid, message) ==
    /\ rev = "delegated"
    /\ LET s0 == Session(sid, EmptyWizard)
       IN  IF LimitReached(s0)
           THEN /\ sessions' = Put(sessions, sid, s0)
                /\ last' = LimitResponse(sid)
                /\ UNCHANGED pending
           ELSE /\ Len(pending) < MaxInFlight
                /\ sessions' = Put(sessions, sid,
                                   [s0 EXCEPT !.count = @ + 1])
                /\ pending' = Append(pending,
                                [kind |-> "controller", sid |-> sid,
                                 text |-> trim(message),
                                 wizard |-> s0.wizard])
                /\ last' = last
    /\ UNCHANGED <<rev, partners, lost, engine>>

\* history of a finishing turn: the slots that another turn changed since
\* this turn read `wizard` (current differs from the snapshot), that this
\* turn's updatedWizard does not carry, and that `{ ...wizard, ... }` therefore
\* sets back to the snapshot's value
LostSlots(current, snapshot, control) ==
    { key \in DOMAIN snapshot :
        /\ current[key] # snapshot[key]
        /\ Spread(snapshot, control.updatedWizard)[key] = snapshot[key]
        /\ \/ control.updatedWizard.t # "object"
           \/ control.updatedWizard.o[key] = UNDEF }

\* variant: the handler reads session.wizard again after the await and merges
\* into that
FinishLRereads(i, content) ==
    /\ i \in 1..Len(pending)
    /\ pending[i].kind = "controller"
    /\ LET e == pending[i]
           current == sessions[e.sid].wizard
       IN  IF content.k = "rejects"
           THEN /\ last' = ErrorResponse(e.sid, e.text, FALSE, EmptyWizard)
                /\ UNCHANGED sessions
           ELSE LET t == TurnL(e.sid, e.text, current,
                               runWizardControllerLLM(current, content))
                IN  /\ sessions' = [sessions EXCEPT ![e.sid].wizard = t.wizard]
                    /\ last' = t.resp
    /\ lost' = IF content.k = "rejects" THEN {}
               ELSE LostSlots(sessions[pending[i].sid].wizard,
                              pending[i].wizard,
                              runWizardControllerLLM(pending[i].wizard,
                                                     content))
    /\ pending' = Remove(pending, i)
    /\ UNCHANGED <<rev, partners, engine>>

\* faulty variant: a rejected controller call clears the slot record
FinishLClearsOnReject(i, content) ==
    /\ i \in 1..Len(pending)
    /\ pending[i].kind = "controller"
    /\ LET e == pending[i]
       IN  IF content.k = "rejects"
           THEN /\ last' = ErrorResponse(e.sid, e.text, FALSE, EmptyWizard)
                /\ sessions' = [sessions EXCEPT ![e.sid].wizard = EmptyWizard]
           ELSE LET t == TurnL(e.sid, e.text, e.wizard,
                               runWizardControllerLLM(e.wizard, content))
                IN  /\ sessions' = [sessions EXCEPT ![e.sid].wizard = t.wizard]
                    /\ last' = t.resp
    /\ lost' = IF content.k = "rejects" THEN {}
               ELSE LostSlots(sessions[pending[i].sid].wizard,
                              pending[i].wizard,
                              runWizardControllerLLM(pending[i].wizard,
                                                     content))
    /\ pending' = Remove(pending, i)
    /\ UNCHANGED <<rev, partners, engine>>

\* the controller call settles and the handler runs to its response
FinishL(i, content) ==
    /\ i \in 1..Len(pending)
    /\ pending[i].kind = "controller"
    /\ pending' = Remove(pending, i)
    /\ LET e == pending[i]
       IN  IF content.k = "rejects"
           THEN /\ last' = ErrorResponse(e.sid, e.text, FALSE, EmptyWizard)
                /\ UNCHANGED sessions
           ELSE LET t == TurnL(e.sid, e.text, e.wizard,
                               runWizardControllerLLM(e.wizard, content))
                IN  /\ sessions' = [sessions EXCEPT ![e.sid].wizard = t.wizard]
                    /\ last' = t.resp
    /\ lost' = IF content.k = "rejects" THEN {}
               ELSE LostSlots(sessions[pending[i].sid].wizard,
                              pending[i].wizard,
                              runWizardControllerLLM(pending[i].wizard,
                                                     content))
    /\ UNCHANGED <<rev, partners, engine>>

(***************************************************************************)
(* Specifications                                                          *)
(***************************************************************************)
InitL ==
    /\ rev = "delegated"
    /\ sessions = <<>>
    /\ pending = <<>>
    /\ last = NoResponse
    /\ partners \in PartnerConfigs
    /\ lost = {}
    /\ engine = NoCall

NextL ==
    \/ \E sid \in SessionIds, m \in MessagesL : StartL(sid, m)
    \/ \E i \in 1..MaxInFlight, c \in LLMContents : FinishL(i, c)
    \/ \E sid \in SessionIds \cup {""}, m \in {"", "ciao"} : BadRequest(sid, m)

\* the delegated revision alone
SpecL == InitL /\ [][NextL]_vars

Init == InitDet \/ InitL

Next == NextDet \/ NextL

\* every revision
Spec == Init /\ [][Next]_vars

\* states of partners/us.json without a usable list that the handlers are
\* started on: unparseable content, and the JSON text null (EngineData has
\* the others)
DataStates ==
    { [c \in {"us"} |-> CORRUPT], [c \in {"us"} |-> NULL] }

InitData ==
    /\ rev \in {"keyword", "verbatim", "delegated"}
    /\ sessions = <<>>
    /\ pending = <<>>
    /\ last = NoResponse
    /\ partners \in DataStates
    /\ lost = {}
    /\ engine = NoCall

\* every revision, started on a partners directory without a usable list
SpecData == InitData /\ [][Next]_vars

InitOrder ==
    /\ rev = "keyword"
    /\ sessions = <<>>
    /\ pending = <<>>
    /\ last = NoResponse
    /\ partners \in PartnerConfigs
    /\ lost = {}
    /\ engine = NoCall

NextOrder == \E sid \in SessionIds, m \in OrderTexts : ChatK(sid, m)

\* the keyword revision on messages that carry three parameters at once
SpecOrder == InitOrder /\ [][NextOrder]_vars

(***************************************************************************)
(* Direct calls of the comparison engine                                   *)
(***************************************************************************)
\* bounds of the arguments matchScore is called with
ScoreBudgetMax == 25
ScoreTotalMax == 40

\* the examples of the documentation, next to the exhaustive small range
ScoreExamples ==
    { <<10000, 10000>>, <<11500, 10000>>, <<10999, 10000>>, <<11000, 10000>>,
      <<12000, 10000>>, <<13000, 10000>>, <<15000, 10000>>, <<14999, 10000>>,
      <<9000, -500>> }

ScoreArguments ==
    ((0..ScoreTotalMax) \X (0..ScoreBudgetMax)) \cup ScoreExamples

\* partner records the data files of the engine runs are built from: weekly
\* prices and fees chosen so that the order by total depends on the duration
\* and two programs tie
ProgramPool ==
    { Program("Harbor College", "Boston", 300, 200, 500),
      Program("Pacific School", "San Diego", 250, 150, 300),
      Program("Lakeside Campus", "Toronto", 100, 100, 4000),
      Program("Sunset Academy", "Los Angeles", 250, 150, 300),
      Program("Lakeshore Institute", "Chicago", 200, 175, 500),
      Program("Twin Campus", "Toronto / Boston", 400, 275, 1000) }

\* longest partner list of an engine run
MaxPrograms == 4

RECURSIVE ListsOver(_, _)
ListsOver(pool, n) ==
    IF n = 0 THEN {<<>>}
    ELSE LET shorter == ListsOver(pool, n - 1)
         IN  shorter \cup
             { Append(l, p) : l \in { x \in shorter : Len(x) = n - 1 },
                              p \in pool }

NoRepeat(l) == \A i, j \in 1..Len(l) : l[i] = l[j] => i = j

\* states of partners/us.json: absent, unparseable, null, an object, a list
EngineData ==
    { <<>>, [c \in {"us"} |-> CORRUPT], [c \in {"us"} |-> NULL],
      [c \in {"us"} |-> Obj(<<>>)] }
    \cup { [c \in {"us"} |-> Arr(l)] :
              l \in { x \in ListsOver(ProgramPool, MaxPrograms) :
                        NoRepeat(x) } }

EngineBudgets == {3000, 9000}
EngineWeeks == {4, 12, 24}

\* matchScore(total, budget)
Score(total, budget) ==
    /\ rev = "engine"
    /\ engine' = [op |-> "matchScore", total |-> total, budget |-> budget,
                  score |-> matchScore(total, budget)]
    /\ UNCHANGED <<rev, sessions, pending, last, partners, lost>>

\* comparePrograms({ countryCode, budget, weeks }) and the cards built from
\* its result
Compare(countryCode, budget, weeks) ==
    /\ rev = "engine"
    /\ LET res == comparePrograms(partners, Str(countryCode), budget, weeks)
       IN  engine' = [op |-> "comparePrograms", countryCode |-> countryCode,
                      budget |-> budget, weeks |-> weeks,
                      threw |-> res.threw, programs |-> res.programs,
                      cards |-> Cards(res.programs, budget)]
    /\ UNCHANGED <<rev, sessions, pending, last, partners, lost>>

InitEngine ==
    /\ rev = "engine"
    /\ sessions = <<>>
    /\ pending = <<>>
    /\ last = NoResponse
    /\ partners \in EngineData
    /\ lost = {}
    /\ engine = NoCall

NextEngine ==
    \E c \in {"us", "canada"}, b \in EngineBudgets, w \in EngineWeeks :
        Compare(c, b, w)

\* comparePrograms called on its own, over the states of the data files
SpecEngine == InitEngine /\ [][NextEngine]_vars

InitScore ==
    /\ rev = "engine"
    /\ sessions = <<>>
    /\ pending = <<>>
    /\ last = NoResponse
    /\ partners = <<>>
    /\ lost = {}
    /\ engine = NoCall

NextScore == \E a \in ScoreArguments : Score(a[1], a[2])

\* matchScore called on its own
SpecScore == InitScore /\ [][NextScore]_vars

(***************************************************************************)
(* Direct calls of the keyword extractor                                   *)
(***************************************************************************)
\* slot records the extractor's findings are merged into
ExtractSlots == {NewWizardK, [NewWizardK EXCEPT !.budget = Num(5000)]}

\* the four parsers on the trimmed text of a message, and the four guarded
\* assignments into the slot record w
Extract(q, u, k, w) ==
    /\ rev = "engine"
    /\ LET d == DetectedK[q \o u \o k]
       IN  /\ d.text # ""
           /\ engine' = [op |-> "extract", quantity |-> q, unit |-> u,
                         keyword |-> k, text |-> d.text, before |-> w,
                         detected |-> d, after |-> ExtractK(w, d)]
    /\ UNCHANGED <<rev, sessions, pending, last, partners, lost>>

NextParse ==
    \E q \in TextParts.quantity, u \in TextParts.unit,
       k \in TextParts.keyword, w \in ExtractSlots : Extract(q, u, k, w)

\* the keyword extractor called on its own
SpecParse == InitScore /\ [][NextParse]_vars

(***************************************************************************)
(* A user who answers each question                                        *)
(***************************************************************************)
\* the slot the last AskMore reply asked for: the first missing one in the
\* order of the question chain (budget for a session that was asked nothing)
AskedSlot(w) ==
    IF ~Truthy(w.budget) THEN "budget"
    ELSE IF ~Truthy(w.countryCode) THEN "countryCode"
    ELSE IF ~Truthy(w.weeks) THEN "weeks"
    ELSE IF ~Truthy(w.goal) THEN "goal"
    ELSE "none"

\* the extractor of the running revision takes a value for the slot from the
\* text: a parser finds one, or (verbatim revision, goal) no parser finds
\* anything and the text itself is taken
Supplies(m, slot) ==
    LET d == IF rev = "keyword" THEN DetectedK[m] ELSE DetectedV[m]
    IN  IF slot = "none" THEN FALSE
        ELSE IF slot = "goal" /\ rev = "verbatim"
        THEN /\ ~Truthy(d.budget) /\ ~Truthy(d.countryCode)
             /\ ~Truthy(d.weeks) /\ d.text # ""
        ELSE Truthy(d[slot])

\* turns of a session up to its first comparison, each on a message that
\* answers the question the session was asked last
Answers(sid, m) ==
    /\ ~last.compared
    /\ Supplies(m, AskedSlot(IF sid \in DOMAIN sessions
                             THEN sessions[sid].wizard ELSE EmptyWizard))

NextAnswer ==
    \/ \E sid \in SessionIds, m \in AnswerTexts :
          Answers(sid, m) /\ ChatK(sid, m)
    \/ \E sid \in SessionIds, m \in AnswerTexts :
          Answers(sid, m) /\ ChatV(sid, m)

SpecAnswer == InitDet /\ [][NextAnswer]_vars

(***************************************************************************)
(* Vocabulary of the properties                                            *)
(***************************************************************************)
SlotNames == {"budget", "countryCode", "weeks", "goal", "city"}
RequiredSlots == {"budget", "countryCode", "weeks", "goal"}
Deterministic == rev \in {"keyword", "verbatim"}

\* the step is the handler of a valid request for sid starting to run
TurnStarts(sid) ==
    \E m \in Messages : ChatK(sid, m) \/ ChatV(sid, m) \/ StartL(sid, m)

Count(sid) == IF sid \in DOMAIN sessions THEN sessions[sid].count ELSE 0

\* a handler of the delegated revision for sid is suspended on the extractor
InFlight(sid) ==
    \E i \in 1..Len(pending) :
        pending[i].sid = sid /\ pending[i].kind = "controller"

\* what the parsers of the running deterministic revision find in a message
Detected(m) == IF rev = "keyword" THEN DetectedK[m] ELSE DetectedV[m]

\* the step is an accepted turn of a deterministic revision on message m
AcceptedDet(sid, m) ==
    /\ ChatK(sid, m) \/ ChatV(sid, m)
    /\ Count(sid) < MAX_MESSAGES_FREE

\* the slot record the session holds, or the one a first request creates
WizardOf(sid) ==
    IF sid \in DOMAIN sessions THEN sessions[sid].wizard
    ELSE IF rev = "keyword" THEN NewWizardK ELSE EmptyWizard

\* the step sends the response of the turn that starts in it
Responds == pending' = pending

AllUnset(w) == \A slot \in SlotNames : w[slot] = UNDEF

\* C1: a turn that starts with the counter at or over the limit answers
\* limit_reached, changes neither the slots nor the counter, and calls no
\* extractor, generic responder or comparison engine.
C1_LimitTurnIsInert ==
    [][\A sid \in SessionIds :
          (Count(sid) >= MAX_MESSAGES_FREE /\ TurnStarts(sid))
              => /\ last' = LimitResponse(sid)
                 /\ sessions' = sessions
                 /\ pending' = pending]_vars

C1_Witness ==
    /\ last.type = "limit_reached"
    /\ last.sid \in DOMAIN sessions
    /\ sessions[last.sid].count = MAX_MESSAGES_FREE
    /\ wizardActive(sessions[last.sid].wizard)

\* C2 as stated: from the moment the counter has reached the limit the slots
\* of the session never change again.
C2_SlotsFrozenAtLimit ==
    [][\A sid \in DOMAIN sessions :
          sessions[sid].count >= MAX_MESSAGES_FREE
              => sessions'[sid].wizard = sessions[sid].wizard]_vars

\* C2 amended: once the counter has reached the limit and no accepted turn of
\* the session is still suspended on the extractor, the slots never change.
C2_SlotsFrozenAtLimitWhenIdle ==
    [][\A sid \in DOMAIN sessions :
          (sessions[sid].count >= MAX_MESSAGES_FREE /\ ~InFlight(sid))
              => sessions'[sid].wizard = sessions[sid].wizard]_vars

C2_Witness ==
    /\ last.type = "limit_reached"
    /\ last.sid \in DOMAIN sessions
    /\ ~InFlight(last.sid)
    /\ AllSet(sessions[last.sid].wizard)

\* C3: every accepted turn adds exactly one to the counter, no other step
\* changes it, and it stays within 0..MAX_MESSAGES_FREE, also when turns of
\* the delegated revision overlap.
C3_CounterCountsAcceptedTurns ==
    /\ [](\A sid \in DOMAIN sessions :
             sessions[sid].count \in 0..MAX_MESSAGES_FREE)
    /\ [][\A sid \in SessionIds :
             /\ sid \in DOMAIN sessions => sid \in DOMAIN sessions'
             /\ sid \in DOMAIN sessions' =>
                  IF TurnStarts(sid) /\ Count(sid) < MAX_MESSAGES_FREE
                  THEN sessions'[sid].count = Count(sid) + 1
                  ELSE sessions'[sid].count = Count(sid)]_vars

C3_Witness ==
    /\ rev = "delegated"
    /\ "s1" \in DOMAIN sessions
    /\ sessions["s1"].count = MAX_MESSAGES_FREE
    /\ Len(pending) = MaxInFlight
    /\ \A i \in 1..Len(pending) : pending[i].sid = "s1"

\* C4: in the deterministic revisions a slot that holds a value keeps it
\* whatever later turns say, until a comparison with results resets the
\* whole slot record.
C4_FirstWriteWins ==
    [][Deterministic =>
          \A sid \in DOMAIN sessions, slot \in RequiredSlots :
              Truthy(sessions[sid].wizard[slot])
                  => \/ sessions'[sid].wizard[slot]
                            = sessions[sid].wizard[slot]
                     \/ /\ last'.reply = "results"
                        /\ last'.sid = sid
                        /\ AllUnset(sessions'[sid].wizard)]_vars

C4_Witness ==
    /\ Deterministic
    /\ last.text = "12000 euro"
    /\ last.route = "ask"
    /\ last.sid \in DOMAIN sessions
    /\ sessions[last.sid].wizard.budget = Num(9000)

\* C5: after a turn that compared and found at least one candidate every
\* slot of the session is unset, and that turn does not take the counter
\* back.
C5_ResetAfterResults ==
    /\ [](last.reply = "results"
            => /\ last.compared /\ last.n >= 1
               /\ AllUnset(sessions[last.sid].wizard)
               /\ sessions[last.sid].count >= 1)
    /\ [][\A sid \in DOMAIN sessions :
             (last'.reply = "results" /\ last'.sid = sid)
                 => sessions'[sid].count >= sessions[sid].count]_vars

C5_Witness ==
    /\ last.reply = "results"
    /\ last.n >= 1
    /\ AllSet(last.args)
    /\ sessions[last.sid].count >= 2

\* C6: after a turn that compared and found no candidate the session holds
\* exactly the slots that were passed to the comparison, and the reply is the
\* no-match message.
C6_NoResetAfterNoMatch ==
    (last.compared /\ last.status = 200 /\ last.n = 0)
        => /\ last.reply = "no_match"
           /\ \A slot \in SlotNames :
                 sessions[last.sid].wizard[slot] = last.args[slot]
           /\ AllSet(sessions[last.sid].wizard)

C6_Witness ==
    /\ last.compared
    /\ last.status = 200
    /\ last.n = 0
    /\ last.reply = "no_match"
    /\ sessions[last.sid].wizard.countryCode \in {Str("canada"), Str("france")}

\* C7: in the deterministic revisions, after a comparison without candidates
\* an accepted turn whose text states a budget, country or duration different
\* from the stored one compares again with the stated value in that slot.
C7_AmendAfterNoMatch ==
    [][\A sid \in SessionIds, m \in Messages :
          (/\ Deterministic
           /\ last.reply = "no_match" /\ last.sid = sid
           /\ AcceptedDet(sid, m))
              => \A slot \in {"budget", "countryCode", "weeks"} :
                    (/\ Truthy(Detected(m)[slot])
                     /\ Detected(m)[slot] # WizardOf(sid)[slot])
                        => /\ last'.compared
                           /\ last'.args[slot] = Detected(m)[slot]]_vars

\* C8: in the deterministic revisions an AskMore reply asks for the first
\* unset slot in the order budget, country, duration, goal, so never for a
\* slot that is set.
C8_AsksFirstMissingSlot ==
    (Deterministic /\ last.route = "ask")
        => LET w == sessions[last.sid].wizard
           IN  /\ last.reply \in {"ask_budget", "ask_country", "ask_weeks",
                                  "ask_goal"}
               /\ last.reply = "ask_budget" => ~Truthy(w.budget)
               /\ last.reply = "ask_country"
                     => Truthy(w.budget) /\ ~Truthy(w.countryCode)
               /\ last.reply = "ask_weeks"
                     => /\ Truthy(w.budget) /\ Truthy(w.countryCode)
                        /\ ~Truthy(w.weeks)
               /\ last.reply = "ask_goal"
                     => /\ Truthy(w.budget) /\ Truthy(w.countryCode)
                        /\ Truthy(w.weeks) /\ ~Truthy(w.goal)

C8_Witness ==
    /\ Deterministic
    /\ last.route = "ask"
    /\ last.reply = "ask_weeks"
    /\ Truthy(sessions[last.sid].wizard.goal)

\* C9: in the deterministic revisions an accepted turn calls comparePrograms
\* exactly when the four required slots are all set after its merge.
C9_ComparesIffComplete ==
    [][\A sid \in SessionIds, m \in Messages :
          AcceptedDet(sid, m)
              => IF Responds /\ last'.compared
                 THEN /\ \A slot \in RequiredSlots : Truthy(last'.args[slot])
                      /\ \A slot \in RequiredSlots :
                            \/ last'.args[slot] = WizardOf(sid)[slot]
                            \/ ~Truthy(WizardOf(sid)[slot])
                 ELSE \E slot \in RequiredSlots :
                          ~Truthy(sessions'[sid].wizard[slot])]_vars

C9_Witness ==
    /\ Deterministic
    /\ last.compared
    /\ last.text = "esperienza culturale"
    /\ last.args.goal = Str("esperienza culturale")
    /\ last.args.weeks = Num(12)

\* C10: in the deterministic revisions an accepted turn goes to the generic
\* responder exactly when no required slot is set after its merge and the
\* text is not about programs; the slots then stay unset; a session with a
\* slot set is never sent to the generic responder.
C10_OffTopicIffIdleAndIrrelevant ==
    [][\A sid \in SessionIds, m \in Messages :
          AcceptedDet(sid, m)
              => /\ ~Responds
                    <=> /\ \A slot \in RequiredSlots :
                              /\ ~Truthy(WizardOf(sid)[slot])
                              /\ ~Truthy(Detected(m)[slot])
                        /\ ~Detected(m).intent
                 /\ ~Responds
                       => /\ \A slot \in RequiredSlots :
                                sessions'[sid].wizard[slot] = UNDEF
                          /\ pending'[Len(pending')].kind = "generic"
                          /\ pending'[Len(pending')].text = Detected(m).text
                 /\ (\E slot \in RequiredSlots : Truthy(WizardOf(sid)[slot]))
                       => Responds /\ last'.route # "offtopic"]_vars

C10_Witness ==
    /\ Deterministic
    /\ last.route = "offtopic"
    /\ last.text = "ciao"
    /\ last.sid \in DOMAIN sessions
    /\ sessions[last.sid].count >= 2
    /\ \A slot \in RequiredSlots : sessions[last.sid].wizard[slot] = UNDEF

(***************************************************************************)
(* Output of the delegated extractor                                       *)
(***************************************************************************)
\* the content does not parse, is not an object, or has no updatedWizard or
\* no action
Malformed(c) ==
    \/ c.k = "unparseable"
    \/ /\ c.k = "json"
       /\ \/ c.v.t # "object"
          \/ c.v.o.updatedWizard = UNDEF
          \/ c.v.o.action = UNDEF

\* the structure the controller prompt requires
StrictShape(o) ==
    /\ o.action \in {Str("ask_more"), Str("ready_to_compare"),
                     Str("off_topic")}
    /\ o.reply.t = "string"
    /\ o.updatedWizard.t = "object"
    /\ LET u == o.updatedWizard.o
       IN  /\ \A key \in {"budget", "weeks"} :
                 \/ u[key] = NULL
                 \/ u[key].t = "number" /\ u[key].n > 0
           /\ \A key \in {"countryCode", "goal", "city"} :
                 u[key] = NULL \/ u[key].t = "string"

\* the content parses to an object with updatedWizard and action, but some
\* field is not what the structure requires
Deviates(c) == c.k = "json" /\ ~Malformed(c) /\ ~StrictShape(c.v.o)

\* C11: in the delegated revision a turn whose extractor output does not
\* parse, is not an object, or lacks updatedWizard or action answers type ok
\* with the generic re-prompt as an ask_more turn, and leaves the session with
\* the slots it had when the turn started.
C11_MalformedOutputFallsBack ==
    [][/\ \A i \in 1..MaxInFlight, c \in LLMContents :
             (Malformed(c) /\ FinishL(i, c))
                 => /\ last'.status = 200 /\ last'.type = "ok"
                    /\ last'.route = "ask" /\ last'.reply = "reprompt"
                    /\ ~last'.compared
                    /\ sessions'[pending[i].sid].wizard = pending[i].wizard
                    /\ sessions'[pending[i].sid].count
                           = sessions[pending[i].sid].count
       /\ \A sid \in SessionIds, m \in MessagesL :
             (~Responds /\ StartL(sid, m))
                 => pending'[Len(pending')].wizard = WizardOf(sid)]_vars

C11_Witness ==
    /\ rev = "delegated"
    /\ last.route = "ask"
    /\ last.reply = "reprompt"
    /\ sessions[last.sid].wizard.budget = Num(9000)
    /\ sessions[last.sid].wizard.countryCode # Str("canada")
    /\ ~InFlight(last.sid)

\* C12: in the delegated revision extractor output that parses but deviates
\* from the required structure (an action outside the three values, a missing
\* or non-string reply, a slot of the wrong type or a non-positive budget or
\* weeks) is not merged: the slots after the turn are those at its start.
C12_DeviatingOutputNotMerged ==
    [][\A i \in 1..MaxInFlight, c \in LLMContents :
          (FinishL(i, c) /\ Deviates(c))
              => sessions'[pending[i].sid].wizard = pending[i].wizard]_vars

\* C13: in the delegated revision a turn whose extractor call fails answers
\* type ok with the safe fallback (ask_more, generic prompt, slots unchanged)
\* and not a server error.
C13_ExtractorFailureFallsBack ==
    [][\A i \in 1..MaxInFlight :
          FinishL(i, [k |-> "rejects"])
              => /\ last'.status = 200 /\ last'.type = "ok"
                 /\ last'.route = "ask" /\ last'.reply = "reprompt"
                 /\ sessions'[pending[i].sid].wizard = pending[i].wizard]_vars

\* C14: a turn whose generic responder call or extractor call throws answers
\* with the server error, and no step of that turn, from its start to the
\* error, writes a slot of the session.
C14_CollaboratorThrowLeavesSlots ==
    [][/\ \A i \in 1..MaxInFlight :
             (GenericThrows(i) \/ FinishL(i, [k |-> "rejects"]))
                 => /\ last'.status = 500 /\ last'.type = "error"
                    /\ last'.sid = pending[i].sid
                    /\ sessions' = sessions
       /\ \A sid \in SessionIds :
             (~Responds /\ TurnStarts(sid))
                 => \A slot \in SlotNames :
                       sessions'[sid].wizard[slot] = WizardOf(sid)[slot]]_vars

C14_Witness ==
    /\ rev = "delegated"
    /\ last.status = 500
    /\ last.type = "error"
    /\ ~last.compared
    /\ sessions[last.sid].wizard.budget = Num(9000)
    /\ sessions[last.sid].count >= 2

(***************************************************************************)
(* Comparison engine                                                       *)
(***************************************************************************)
\* C15: for budget > 0, matchScore is 5.0 exactly when total <= budget;
\* otherwise, with ratio = (total - budget) / budget, it is 4.5 below 0.10,
\* 4.0 from 0.10 to below 0.20, 3.5 from 0.20 to below 0.30, 3.0 from 0.30 to
\* below 0.50 and 2.5 from 0.50; it is always one of the six values.
\* (scores in tenths, ratio bounds as hundredths of the budget)
C15_MatchScoreSteps ==
    (engine.op = "matchScore" /\ engine.budget > 0)
        => LET over == 100 * (engine.total - engine.budget)
               b == engine.budget
               score == engine.score
           IN  /\ score \in {25, 30, 35, 40, 45, 50}
               /\ score = 50 <=> engine.total <= engine.budget
               /\ score = 45 <=> (0 < over /\ over < 10 * b)
               /\ score = 40 <=> (10 * b <= over /\ over < 20 * b)
               /\ score = 35 <=> (20 * b <= over /\ over < 30 * b)
               /\ score = 30 <=> (30 * b <= over /\ over < 50 * b)
               /\ score = 25 <=> 50 * b <= over

C15_Witness ==
    /\ engine.op = "matchScore"
    /\ engine.total = 11500
    /\ engine.budget = 10000
    /\ engine.score = 40

\* C16: the entries comparePrograms returns, and the cards built from them,
\* are in non-decreasing order of total, whatever their scores.
C16_CheapestFirst ==
    (engine.op = "comparePrograms" /\ ~engine.threw)
        => /\ \A i, j \in 1..Len(engine.programs) :
                 i < j => engine.programs[i].total <= engine.programs[j].total
           /\ Len(engine.cards) <= Len(engine.programs)
           /\ \A i \in 1..Len(engine.cards) :
                 /\ engine.cards[i].name = engine.programs[i].name
                 /\ engine.cards[i].total = engine.programs[i].total
           /\ \A i, j \in 1..Len(engine.cards) :
                 i < j => engine.cards[i].total <= engine.cards[j].total

C16_Witness ==
    /\ engine.op = "comparePrograms"
    /\ Len(engine.cards) = 3
    /\ engine.cards[1].total < engine.cards[3].total
    /\ engine.cards[1].score = engine.cards[3].score
    /\ partners["us"].items[1].name = engine.programs[3].name

\* C17: for weeks > 0 every returned entry is a candidate of the data file
\* with its reference fields as they are and tuition = tuition_per_week *
\* weeks, housing = housing_per_week * weeks, total = tuition + housing + fees
\* and fitsBudget = (total <= budget); no candidate is dropped or added.
C17_EntryFields ==
    (engine.op = "comparePrograms" /\ Len(engine.programs) > 0
         /\ engine.weeks > 0)
        => LET items == partners[engine.countryCode].items
               Computed(e, p) ==
                   /\ e.name = p.name /\ e.city = p.city
                   /\ e.tuition_per_week = p.tuition_per_week
                   /\ e.housing_per_week = p.housing_per_week
                   /\ e.fees = p.fees /\ e.notes = p.notes
                   /\ e.tuition = p.tuition_per_week * engine.weeks
                   /\ e.housing = p.housing_per_week * engine.weeks
                   /\ e.total = e.tuition + e.housing + p.fees
                   /\ e.fitsBudget = (e.total <= engine.budget)
           IN  /\ Len(engine.programs) = Len(items)
               /\ \A i \in 1..Len(items) :
                     \E j \in 1..Len(engine.programs) :
                         Computed(engine.programs[j], items[i])
               /\ \A j \in 1..Len(engine.programs) :
                     \E i \in 1..Len(items) :
                         Computed(engine.programs[j], items[i])

C17_Witness ==
    /\ engine.op = "comparePrograms"
    /\ Len(engine.programs) = 3
    /\ engine.programs[1].fitsBudget
    /\ ~engine.programs[3].fitsBudget
    /\ engine.programs[3].total = 24 * 500 + 500

\* C18: whatever the state of a country's data file without a usable list
\* (absent, unparseable, null, an object, the empty list), a turn that calls
\* comparePrograms gets an empty result and answers with the no-match reply,
\* not with a server error.
C18_NoDataIsNoMatch ==
    last.compared
        => /\ last.status = 200 /\ last.type = "ok"
           /\ last.reply = "no_match"
           /\ last.n = 0

(***************************************************************************)
(* Overlapping turns of one session                                        *)
(***************************************************************************)
\* C19: in the delegated revision a turn that finishes writes the merge of
\* its update into the slot record it read before the extractor call, not
\* into the current one; so when another turn of the session merged a slot in
\* between, that slot goes back to the older value, which differs from what
\* the two turns give one after the other (in either order the later merge
\* keeps it). The witness is the end of such an interleaving of two turns.
C19_StaleSnapshotWrite ==
    [][\A i \in 1..MaxInFlight, c \in LLMContents :
          (c.k # "rejects" /\ FinishL(i, c))
              => LET e == pending[i]
                     current == sessions[e.sid].wizard
                     control == runWizardControllerLLM(e.wizard, c)
                     racy == Spread(e.wizard, control.updatedWizard)
                     serial == Spread(current, control.updatedWizard)
                 IN  /\ last'.reply # "results"
                        => sessions'[e.sid].wizard = racy
                     /\ \A key \in lost' :
                           /\ racy[key] = e.wizard[key]
                           /\ serial[key] = current[key]
                           /\ racy[key] # serial[key]]_vars

\* two turns of a fresh session overlapped: one merged budget 9000, the other
\* then wrote {countryCode: "us"} over the empty record it had read
C19_Witness ==
    /\ rev = "delegated"
    /\ "s1" \in DOMAIN sessions
    /\ sessions["s1"].count = 2
    /\ pending = <<>>
    /\ "budget" \in lost
    /\ last.route = "offtopic"
    /\ sessions["s1"].wizard.budget = UNDEF
    /\ sessions["s1"].wizard.countryCode = Str("us")
    /\ LET uA == Slots(Num(9000), NULL, NULL, NULL, NULL)
           uB == Slots(UNDEF, Str("us"), UNDEF, UNDEF, UNDEF)
           final == sessions["s1"].wizard
       IN  /\ final # Spread(Spread(EmptyWizard, uA), uB)
           /\ final # Spread(Spread(EmptyWizard, uB), uA)
           /\ final = Spread(EmptyWizard, uB)

DigitRunValues(s) ==
    { parseInt(SubSeq(s, i, DigitRunEnd(s, i))) :
        i \in { j \in DigitPositions(s) :
                  j = 1 \/ ~IsDigit(CharAt(s, j - 1)) } }

\* C21: with the guarded parser, a message without currency marker whose
\* numbers are all below 100 never sets budget: parseBudget returns none and
\* the budget slot after the merge is the one before it.
C21_SmallNumbersNeverBudget ==
    (/\ engine.op = "extract"
     /\ ~hasCurrency(toLowerCase(engine.text))
     /\ \A n \in DigitRunValues(engine.text) : n < 100)
        => /\ engine.detected.budget = NULL
           /\ engine.after.budget = engine.before.budget

(***************************************************************************)
(* The goal slot                                                           *)
(***************************************************************************)
\* the slot record a deterministic turn worked on after its merge: the
\* arguments of the comparison when it ran one, else the stored record
MergedDet(sid) ==
    IF last'.compared THEN last'.args ELSE sessions'[sid].wizard

\* C23: in the verbatim revision, an accepted turn that starts with budget,
\* countryCode and weeks set and goal unset, and that changes none of the
\* three, makes the trimmed text of the message the goal.
C23_VerbatimGoalFallback ==
    [][\A sid \in SessionIds, m \in Messages :
          (/\ rev = "verbatim"
           /\ Truthy(WizardOf(sid).budget)
           /\ Truthy(WizardOf(sid).countryCode)
           /\ Truthy(WizardOf(sid).weeks)
           /\ ~Truthy(WizardOf(sid).goal)
           /\ AcceptedDet(sid, m)
           /\ \A slot \in {"budget", "countryCode", "weeks"} :
                 MergedDet(sid)[slot] = WizardOf(sid)[slot])
              => MergedDet(sid).goal = Str(Detected(m).text)]_vars

\* C24: in the keyword revision, an accepted turn that starts with budget,
\* countryCode and weeks set and goal unset, on a text in which no parser
\* finds a budget, a country, a duration or a goal keyword, makes the text
\* the goal and runs the comparison instead of asking for the goal again.
C24_KeywordGoalFallback ==
    [][\A sid \in SessionIds, m \in Messages :
          (/\ rev = "keyword"
           /\ Truthy(WizardOf(sid).budget)
           /\ Truthy(WizardOf(sid).countryCode)
           /\ Truthy(WizardOf(sid).weeks)
           /\ ~Truthy(WizardOf(sid).goal)
           /\ AcceptedDet(sid, m)
           /\ \A slot \in RequiredSlots : ~Truthy(Detected(m)[slot]))
              => /\ last'.compared
                 /\ last'.args.goal = Str(Detected(m).text)
                 /\ last'.reply # "ask_goal"]_vars

(***************************************************************************)
(* Delegated decisions                                                     *)
(***************************************************************************)
\* C25: in the delegated revision, a turn whose decision is off_topic leaves
\* the slots of the session as they were before the turn, whatever
\* updatedWizard came with the decision.
C25_OffTopicLeavesSlots ==
    [][\A i \in 1..MaxInFlight, c \in LLMContents :
          (/\ i \in 1..Len(pending)
           /\ Len(pending') < Len(pending)
           /\ c.k # "rejects"
           /\ runWizardControllerLLM(pending[i].wizard, c).action
                  = Str("off_topic")
           /\ FinishL(i, c))
              => /\ last'.route = "offtopic"
                 /\ sessions'[pending[i].sid].wizard
                        = sessions[pending[i].sid].wizard]_vars

\* C26: in every revision, whenever comparePrograms is called, budget,
\* countryCode, weeks and goal are all set, budget is a positive integer and
\* weeks is a positive integer.
C26_CompareArguments ==
    last.compared
        => /\ AllSet(last.args)
           /\ last.args.budget.t = "number" /\ last.args.budget.n > 0
           /\ last.args.weeks.t = "number" /\ last.args.weeks.n > 0

(***************************************************************************)
(* The displayed entries                                                   *)
(***************************************************************************)
\* the candidates of an engine call: the records of the country's file
Candidates ==
    IF engine.countryCode \in DOMAIN partners
       /\ partners[engine.countryCode].t = "array"
    THEN partners[engine.countryCode].items ELSE <<>>

\* total cost of a candidate for the weeks of the call, from its record
TotalOf(p) ==
    p.tuition_per_week * engine.weeks + p.housing_per_week * engine.weeks
        + p.fees

\* C27: a comparison displays min(3, n) of its n candidates, each displayed
\* entry is one of the candidates with its total, and no candidate left out
\* is cheaper than a displayed one.
C27_ThreeCheapest ==
    (engine.op = "comparePrograms" /\ ~engine.threw)
        => LET n == Len(Candidates)
               shown == {engine.cards[i].name : i \in DOMAIN engine.cards}
           IN  /\ Len(engine.cards) = Min({3, n})
               /\ Cardinality(shown) = Len(engine.cards)
               /\ \A i \in DOMAIN engine.cards :
                     /\ \E j \in 1..n :
                           /\ Candidates[j].name = engine.cards[i].name
                           /\ TotalOf(Candidates[j]) = engine.cards[i].total
                     /\ \A j \in 1..n :
                           Candidates[j].name \notin shown
                               => engine.cards[i].total
                                      <= TotalOf(Candidates[j])

\* four candidates, the first of the file is the most expensive for 24 weeks
\* and is the one left out
C27_Witness ==
    /\ engine.op = "comparePrograms" /\ ~engine.threw
    /\ engine.weeks = 24
    /\ Len(Candidates) = 4
    /\ Candidates[1].name = "Harbor College"
    /\ Len(engine.cards) = 3
    /\ \A i \in 1..3 : engine.cards[i].name # "Harbor College"
    /\ engine.cards[1].name = "Lakeside Campus"

CityTags == {"[Focus accademico]", "[Lifestyle e outdoor]", "[Grande città]"}

\* C28: the tag list of every displayed entry starts with its one budget-fit
\* tag (within budget exactly when the total does not exceed the budget),
\* ends with its one match-tier tag (very high from 4.5, good from 4.0,
\* compromise from 3.5, reference below), and has only city tags in between.
C28_TagList ==
    (engine.op = "comparePrograms" /\ ~engine.threw)
        => \A i \in DOMAIN engine.cards :
              LET card == engine.cards[i]
                  tags == card.tags
                  n == Len(tags)
              IN  /\ n >= 2
                  /\ tags[1] = IF card.total <= engine.budget
                               THEN "[Budget ok]" ELSE "[Sopra budget]"
                  /\ tags[n] = IF card.score >= 45 THEN "[Match molto alto]"
                               ELSE IF card.score >= 40 THEN "[Buon match]"
                               ELSE IF card.score >= 35
                               THEN "[Compromesso budget]"
                               ELSE "[Usa come riferimento]"
                  /\ \A j \in 2..(n - 1) : tags[j] \in CityTags
                  /\ card.score \in {25, 30, 35, 40, 45, 50}

\* a card over budget by less than a tenth (score 4.5) without city tag, and
\* a card with two city tags
C28_Witness ==
    /\ engine.op = "comparePrograms" /\ ~engine.threw
    /\ \E i \in DOMAIN engine.cards :
          /\ engine.cards[i].score = 45
          /\ engine.cards[i].tags = <<"[Sopra budget]", "[Match molto alto]">>
    /\ \E i \in DOMAIN engine.cards :
          /\ Len(engine.cards[i].tags) = 4
          /\ engine.cards[i].tags[1] = "[Sopra budget]"
          /\ engine.cards[i].tags[4] \in {"[Compromesso budget]",
                                          "[Usa come riferimento]"}

\* C29: in the delegated revision the closest-alternative note is part of a
\* reply exactly when the reply shows results, a city hint is set, and no
\* partner of the country, displayed or not, has that city ignoring case.
C29_CityNote ==
    rev = "delegated"
        => last.note
              = (/\ last.reply = "results"
                 /\ Truthy(last.args.city)
                 /\ \A i \in 1..Len(PartnersUS) :
                       toLowerCase(PartnersUS[i].city)
                           # toLowerCase(last.args.city.s))

\* results for a hint that names, in capitals, the city of the one partner
\* that is not displayed: no note
C29_Witness ==
    /\ rev = "delegated"
    /\ last.reply = "results"
    /\ last.args.city = Str("NEW YORK")
    /\ last.args.weeks = Num(24)
    /\ last.n = 4
    /\ ~last.note

(***************************************************************************)
(* parseWeeks                                                              *)
(***************************************************************************)
\* what the parts of a message stand for
ShortTripKeywords == {" in estate", " next summer"}
TermKeywords == {" per un semestre"}
YearKeywords == {" per un anno"}
WeekUnits == {" settimane", "sett.", " weeks"}
MonthUnits == {" mesi", " mese", " months"}
WholeNumbers == {"0", "3", "12", "99", "100", "1500"}

\* the duration the claim gives a message made of a whole number, a unit and
\* a closing phrase
WeeksByRule(q, u, k) ==
    IF k \in ShortTripKeywords THEN Num(12)
    ELSE IF k \in TermKeywords THEN Num(24)
    ELSE IF k \in YearKeywords THEN Num(48)
    ELSE IF q \in WholeNumbers /\ u \in WeekUnits THEN Num(parseInt(q))
    ELSE IF q \in WholeNumbers /\ u \in MonthUnits
    THEN Num(4 * parseInt(q))
    ELSE NULL

\* C30: parseWeeks returns a positive integer or none: 12 with a short-trip
\* keyword, else 24 with a term keyword, else 48 with a year keyword (before
\* any number in the text), else n for "n weeks" and 4 * n for "n months",
\* else none.
C30_ParseWeeks ==
    engine.op = "extract"
        => LET weeks == engine.detected.weeks
           IN  /\ weeks = NULL \/ (weeks.t = "number" /\ weeks.n > 0)
               /\ engine.quantity \in WholeNumbers \cup {""}
                     => weeks = WeeksByRule(engine.quantity, engine.unit,
                                            engine.keyword)

(***************************************************************************)
(* Progress of the wizard                                                  *)
(***************************************************************************)
\* C31: in the deterministic revisions, when every message answers the slot
\* that was just asked (budget, country, duration, goal), the comparison has
\* run by the fourth accepted turn: before it, every turn so far has filled
\* one more of the four slots.
C31_ComparesByFourthTurn ==
    \A sid \in DOMAIN sessions :
        /\ sessions[sid].count <= 4
        /\ sessions[sid].count = 4 => last.compared
        /\ ~last.compared
              => Cardinality({slot \in RequiredSlots :
                                Truthy(sessions[sid].wizard[slot])})
                     >= sessions[sid].count

\* four turns, one slot each, the fourth runs the comparison
C31_Witness ==
    /\ "s1" \in DOMAIN sessions
    /\ sessions["s1"].count = 4
    /\ last.compared
    /\ last.args.budget = Num(3000)
    /\ last.args.weeks = Num(12)
    /\ last.args.goal = Str("migliorare l'inglese")
    /\ last.reply = "results"

(***************************************************************************)
(* Failed turns and the quota                                              *)
(***************************************************************************)
\* C32: a turn that ends in the server-level error does not consume quota:
\* when the 500 is sent the counter of the session is what it was before the
\* turn began (a turn that was suspended on a call had added one when it
\* started; a turn that ran in one step began in the current state).
C32_FailedTurnNotCounted ==
    [][\A sid \in SessionIds :
          /\ last'.status = 500
          /\ last'.sid = sid
          /\ pending' # pending \/ sessions' # sessions
          => sessions'[sid].count =
                 IF pending' = pending THEN Session(sid, EmptyWizard).count
                 ELSE sessions[sid].count - 1]_vars

(***************************************************************************)
(* How a slot becomes unset                                                *)
(***************************************************************************)
\* C33: in every revision a slot that is set becomes unset only through the
\* reset after a comparison with results: a step in which some set slot of a
\* session becomes unset is a turn that answered with the cards and left all
\* four slots unset. In particular a null in the extractor output does not
\* unset a slot.
C33_UnsetOnlyByReset ==
    [][\A sid \in DOMAIN sessions :
          (\E slot \in RequiredSlots :
              /\ Truthy(sessions[sid].wizard[slot])
              /\ ~Truthy(sessions'[sid].wizard[slot]))
          => /\ last'.compared
             /\ last'.reply = "results"
             /\ last'.sid = sid
             /\ \A slot \in RequiredSlots :
                    ~Truthy(sessions'[sid].wizard[slot])]_vars

(***************************************************************************)
(* Overlapping turns of the deterministic revisions                        *)
(***************************************************************************)
\* C34: in the deterministic revisions a turn reads and writes the session
\* record within one run: a turn that suspends on the generic responder has
\* written no slot (it only counted itself), and a turn that resumes writes
\* nothing, so the session record only ever changes by whole turns, one
\* after the other.
C34_NoWriteAcrossAwait ==
    [][(rev # "delegated")
          => /\ Len(pending') > Len(pending)
                => LET e == pending'[Len(pending')]
                       s0 == Session(e.sid, IF rev = "keyword"
                                            THEN NewWizardK ELSE EmptyWizard)
                   IN  sessions' = Put(sessions, e.sid,
                                       [s0 EXCEPT !.count = @ + 1])
             /\ Len(pending') < Len(pending) => sessions' = sessions]_vars

\* a turn filled slots and was counted while an earlier turn of the session
\* was still waiting for the generic responder
C34_Witness ==
    /\ rev \in {"keyword", "verbatim"}
    /\ Len(pending) = 1
    /\ "s1" \in DOMAIN sessions
    /\ sessions["s1"].count = 2
    /\ Truthy(sessions["s1"].wizard.budget)
    /\ last.route = "ask"

(***************************************************************************)
(* The reset and overlapping turns of the delegated revision               *)
(***************************************************************************)
\* the value the extractor's own output gives for a slot in this turn
\* (undefined when the content is no object with an updatedWizard object)
Returned(content, slot) ==
    IF content.k # "json" THEN UNDEF
    ELSE IF content.v.t # "object" THEN UNDEF
    ELSE IF content.v.o.updatedWizard.t # "object" THEN UNDEF
    ELSE content.v.o.updatedWizard.o[slot]

\* C35: in the delegated revision, also with overlapping turns, once a
\* comparison with results has reset the slot record (the last reply sent is
\* the cards and the record is empty), a turn that finishes next sets a slot
\* only to a value that the extractor output of that turn returns.
C35_NoReappearAfterReset ==
    [][\A i \in 1..Len(pending), c \in LLMContents :
          (/\ last.reply = "results"
           /\ pending[i].kind = "controller"
           /\ sessions[pending[i].sid].wizard = EmptyWizard
           /\ FinishL(i, c))
          => \A slot \in RequiredSlots \cup {"city"} :
                 LET after == sessions'[pending[i].sid].wizard[slot]
                 IN  Truthy(after) => Returned(c, slot) = after]_vars

(***************************************************************************)
(* The quota is final                                                      *)
(***************************************************************************)
\* the session exists and its counter is at the limit
Limited(sid, map) ==
    sid \in DOMAIN map /\ map[sid].count >= MAX_MESSAGES_FREE

\* C36: limit_reached is absorbing. A limit_reached answer is only given to
\* a session at the limit; a session at the limit stays there, and every
\* turn that starts on it is answered limit_reached; no step lowers a
\* counter or drops a session, the step that resets the slots after the
\* cards included.
C36_LimitIsAbsorbing ==
    /\ [](last.type = "limit_reached" => Limited(last.sid, sessions))
    /\ [][\A sid \in DOMAIN sessions :
             /\ sid \in DOMAIN sessions'
             /\ sessions'[sid].count >= sessions[sid].count
             /\ last'.reply = "results" /\ last'.sid = sid /\ last' # last
                   => sessions'[sid].count >= 1
             /\ Limited(sid, sessions)
                   => /\ Limited(sid, sessions')
                      /\ TurnStarts(sid) => last'.type = "limit_reached"]_vars

\* a session at the limit whose slot record holds nothing (it was reset, or
\* never filled) is refused a turn
C36_Witness ==
    /\ last.type = "limit_reached"
    /\ Limited(last.sid, sessions)
    /\ ~wizardActive(sessions[last.sid].wizard)
    /\ pending = <<>>

(***************************************************************************)
(* Two sessions                                                            *)
(***************************************************************************)
\* the session ids of two clients
IsoIds == {"s1", "s2"}

\* turns a session takes in the two-session runs
IsoTurns == 3

IsoMessages == {"Ho 9000 euro per un anno negli USA", "3 mesi", "ciao"}

IsoContents ==
    { [k |-> "rejects"],
      [k |-> "unparseable"],
      Parsed(Slots(Num(9000), NULL, NULL, NULL, NULL),
             Str("ask_more"), Str("r")),
      Parsed(Slots(Num(9000), Str("us"), Num(24), Str("studio"),
                   Str("NEW YORK")),
             Str("ready_to_compare"), Str("r")),
      Parsed(Slots(UNDEF, Str("us"), UNDEF, UNDEF, UNDEF),
             Str("off_topic"), Str("r")) }

NextIso ==
    \/ \E sid \in IsoIds, m \in IsoMessages :
          Session(sid, EmptyWizard).count < IsoTurns /\ ChatK(sid, m)
    \/ \E sid \in IsoIds, m \in IsoMessages :
          Session(sid, EmptyWizard).count < IsoTurns /\ ChatV(sid, m)
    \/ \E sid \in IsoIds, m \in MessagesL :
          Session(sid, EmptyWizard).count < IsoTurns /\ StartL(sid, m)
    \/ \E i \in 1..MaxInFlight : GenericReplies(i)
    \/ \E i \in 1..MaxInFlight : GenericThrows(i)
    \/ \E i \in 1..MaxInFlight, c \in IsoContents : FinishL(i, c)

\* every revision, with two clients
SpecIso == Init /\ [][NextIso]_vars

\* the step belongs to a turn of session a: the turn starts, or one of its
\* suspended handlers resumes
TurnStepOf(a) ==
    \/ \E m \in IsoMessages \cup MessagesL :
          ChatK(a, m) \/ ChatV(a, m) \/ StartL(a, m)
    \/ \E i \in 1..Len(pending) :
          /\ pending[i].sid = a
          /\ \/ GenericReplies(i)
             \/ GenericThrows(i)
             \/ \E c \in IsoContents : FinishL(i, c)

\* C37: sessions are isolated. A step of a turn of session a leaves every
\* other session as it was (present or absent, counter and slots); and the
\* first turn of an id starts from counter 0 and unset slots: after it the
\* counter is 1 and every slot is unset or holds what this turn's own
\* message or extractor output gave, whatever the other session holds.
C37_SessionsIsolated ==
    [][\A a \in IsoIds :
          TurnStepOf(a)
          => /\ \A b \in IsoIds \ {a} :
                   /\ b \in DOMAIN sessions' <=> b \in DOMAIN sessions
                   /\ b \in DOMAIN sessions => sessions'[b] = sessions[b]
             /\ a \notin DOMAIN sessions
                   => /\ a \in DOMAIN sessions'
                      /\ sessions'[a].count = 1
                      /\ \A slot \in SlotNames :
                            LET after == sessions'[a].wizard[slot]
                            IN  \/ after = UNDEF
                                \/ \E m \in IsoMessages :
                                      /\ ChatK(a, m) \/ ChatV(a, m)
                                      /\ after = Detected(m)[slot]]_vars

\* one client has filled its slots, the other has taken a turn and holds
\* nothing
C37_Witness ==
    /\ DOMAIN sessions = IsoIds
    /\ Truthy(sessions["s1"].wizard.budget)
    /\ Truthy(sessions["s1"].wizard.countryCode)
    /\ sessions["s2"].count = 1
    /\ ~wizardActive(sessions["s2"].wizard)

(***************************************************************************)
(* A complete slot record between turns                                    *)
(***************************************************************************)
\* C38: in the deterministic revisions the four slots of a session are all
\* set between turns only if its most recent accepted turn was a Ready turn
\* without candidates: an accepted turn ends with all four set only when it
\* answered no_match after a comparison that returned nothing, and no other
\* step changes a slot record.
C38_CompleteOnlyAfterNoMatch ==
    [][Deterministic
          => \A sid \in SessionIds :
                IF \E m \in Messages : AcceptedDet(sid, m)
                THEN AllSet(sessions'[sid].wizard)
                        => /\ last'.sid = sid
                           /\ last'.compared
                           /\ last'.reply = "no_match"
                           /\ last'.n = 0
                ELSE sid \in DOMAIN sessions
                        => sessions'[sid].wizard = sessions[sid].wizard]_vars

(***************************************************************************)
(* Scores along a result list                                              *)
(***************************************************************************)
\* partner lists of the ranking runs: full-length lists that begin with the
\* same three partners, the most expensive ones
RankData ==
    { [c \in {"us"} |-> Arr(l)] :
        l \in { x \in ListsOver(ProgramPool, MaxPrograms) :
                  /\ NoRepeat(x)
                  /\ Len(x) = MaxPrograms
                  /\ x[1].name = "Harbor College"
                  /\ x[2].name = "Twin Campus"
                  /\ x[3].name = "Lakeside Campus" } }

InitRank ==
    /\ rev = "engine"
    /\ sessions = <<>>
    /\ pending = <<>>
    /\ last = NoResponse
    /\ partners \in RankData
    /\ lost = {}
    /\ engine = NoCall

NextRank == NextScore \/ NextEngine

\* matchScore and comparePrograms called on their own
SpecRank == InitRank /\ [][NextRank]_vars

\* C39: for a budget > 0 matchScore does not increase when the total grows
\* (by one unit, hence by any amount); and along every list of cards the
\* score never increases from one card to the next and no card within the
\* budget comes after a card over the budget.
C39_ScoresNeverIncrease ==
    /\ (engine.op = "matchScore" /\ engine.budget > 0)
          => matchScore(engine.total + 1, engine.budget) <= engine.score
    /\ engine.op = "comparePrograms"
          => \A i \in 1..(Len(engine.cards) - 1) :
                /\ engine.cards[i + 1].score <= engine.cards[i].score
                /\ engine.cards[i + 1].tags[1] = "[Budget ok]"
                      => engine.cards[i].tags[1] = "[Budget ok]"

\* three cards, the first two within the budget with 5.0, the third over it
\* with a lower score
C39_Witness ==
    /\ engine.op = "comparePrograms"
    /\ Len(engine.cards) = 3
    /\ engine.cards[1].score = 50
    /\ engine.cards[2].tags[1] = "[Budget ok]"
    /\ engine.cards[3].tags[1] = "[Sopra budget]"
    /\ engine.cards[3].score < 50

(***************************************************************************)
(* Durations and the budget                                                *)
(***************************************************************************)
\* C40: a number that is followed by a weeks or months unit is a duration
\* and never becomes the budget: parseBudget does not return it, and the
\* merge into a record without budget does not store it.
C40_DurationNeverBudget ==
    (/\ engine.op = "extract"
     /\ engine.quantity \in WholeNumbers
     /\ engine.unit \in WeekUnits \cup MonthUnits)
        => LET quantity == Num(parseInt(engine.quantity))
           IN  /\ engine.detected.budget # quantity
               /\ ~Truthy(engine.before.budget)
                     => engine.after.budget # quantity

=============================================================================
